---- MODULE Spec2Model ----
(***************************************************************************)
(* Session management (user_context/context.py) and the data-isolation     *)
(* layer (security/data_isolation.py) of the maratron AI server.           *)
(*                                                                         *)
(* Time is the UTC wall clock in whole minutes.  A user id is a string;    *)
(* None stands for Python's None.  Every operation is one action; the      *)
(* outcome of each database call it makes (success, or an error/timeout    *)
(* raised by the *_with_timeout helpers) is an input of the action.        *)
(***************************************************************************)
EXTENDS Integers, Sequences, FiniteSets, TLC

----------------------------------------------------------------------------
(* Bounds of the model *)

\* Wall clock, in minutes, when the process starts.
StartTime == 20000
\* The clock is followed for this many minutes after the start.
MaxElapsed == 61
\* At most this many session objects are constructed in one run.
MaxObjects == 3

\* The seconds the clock of the rate limiter runs.
MaxSeconds == 60
\* The entries a list of the conversation context is followed up to.
MaxMentions == 21

\* How far the clock moves between two operations.
TimeSteps == {30, 31}

----------------------------------------------------------------------------
(* Program constants *)

\* UserSession.is_expired(timeout_minutes=60)
IdleTimeoutMinutes == 60
\* _save_session_to_db: expires_at = last_activity + timedelta(hours=24)
ExpiresAfterMinutes == 1440
\* _cleanup_old_sessions_from_db: cutoff = utcnow() - timedelta(days=7)
RetentionMinutes == 10080
\* UserSession.db_id = None
NoDbId == 0
\* No session object.
NoObject == 0
\* check_rate_limit(max_requests=10)
DefaultMaxRequests == 10
\* is_blocked(max_attempts=5)
DefaultMaxAttempts == 5

None == "None"

\* Rows of the "Users" table.
ExistingUsers == {"u1", "u2"}
\* Every user id of the model: the existing users and one in no "Users" row.
UserIds == ExistingUsers \cup {"u9"}
\* The ids the callers of the session manager pass in a run.
CallerIds == {"u1", "u9"}
\* The values the callers of the isolation layer pass as user_id: also the
\* empty string and Python's None, which the `user_id: str` hint does not
\* keep out.
TargetIds == UserIds \cup {"", None}

----------------------------------------------------------------------------
(* Strings as sequences of characters *)

LowerCase ==
  <<"a","b","c","d","e","f","g","h","i","j","k","l","m",
    "n","o","p","q","r","s","t","u","v","w","x","y","z">>
UpperCase ==
  <<"A","B","C","D","E","F","G","H","I","J","K","L","M",
    "N","O","P","Q","R","S","T","U","V","W","X","Y","Z">>

\* str.upper() on one character.
UpperChar(c) ==
  IF \E i \in 1..Len(LowerCase) : LowerCase[i] = c
    THEN UpperCase[CHOOSE i \in 1..Len(LowerCase) : LowerCase[i] = c]
    ELSE c

\* str.upper()
Upper(s) == [i \in 1..Len(s) |-> UpperChar(s[i])]

\* str.lower() on one character, and on a text.
LowerChar(c) ==
  IF \E i \in 1..Len(UpperCase) : UpperCase[i] = c
    THEN LowerCase[CHOOSE i \in 1..Len(UpperCase) : UpperCase[i] = c]
    ELSE c
lower(text) == [i \in 1..Len(text) |-> LowerChar(text[i])]

\* Python's `pat in s` on strings.
Contains(s, pat) ==
  \E i \in 0..(Len(s) - Len(pat)) :
    \A j \in 1..Len(pat) : s[i + j] = pat[j]

\* Statement bodies of the queries handed to the guard, one character per element.
StatementText ==
  << <<"S","E","L","E","C","T"," ","*"," ","F","R","O","M"," ","\"","R","u","n","s","\"">>,
     <<"S","E","L","E","C","T"," ","*"," ","F","R","O","M"," ","U","s","e","r","s">>,
     <<"s","e","l","e","c","t"," ","n","a","m","e"," ","f","r","o","m"," ","\"","S","h","o","e","s","\"">>,
     <<"S","E","L","E","C","T"," ","i","d",","," ","\"","u","s","e","r","I","d","\""," ","F","R","O","M"," ","\"","R","u","n","s","\"">>,
     <<"U","P","D","A","T","E"," ","\"","U","s","e","r","s","\""," ","S","E","T"," ","n","a","m","e","=","$","2">>,
     <<"D","E","L","E","T","E"," ","F","R","O","M"," ","\"","S","h","o","e","s","\"">>,
     <<"I","N","S","E","R","T"," ","I","N","T","O"," ","\"","R","u","n","s","\""," ","(","i","d",")"," ","V","A","L","U","E","S"," ","(","$","2",")">>,
     <<"S","H","O","W"," ","T","A","B","L","E","S">>,
     <<"S","E","L","E","C","T"," ","C","O","U","N","T","(","*",")"," ","F","R","O","M"," ","I","N","F","O","R","M","A","T","I","O","N","_","S","C","H","E","M","A",".","T","A","B","L","E","S">> >>
\* What each statement body is: a read, a write of a kind, or schema introspection.
StatementKind ==
  << "select",
     "select",
     "select",
     "select",
     "update",
     "delete",
     "insert",
     "system",
     "system" >>
\* Filter clauses appended to a statement body; the first is the stripped (empty) clause.
PredicateText ==
  << <<>>,
     <<" ","W","H","E","R","E"," ","\"","u","s","e","r","I","d","\"","=","$","1">>,
     <<" ","W","H","E","R","E"," ","u","s","e","r","I","d","=","$","1">>,
     <<" ","W","H","E","R","E"," ","\"","u","s","e","r","I","d","\""," ","="," ","$","1">>,
     <<" ","w","h","e","r","e"," ","\"","U","S","E","R","I","D","\"","=","$","1">>,
     <<" ","W","H","E","R","E"," ","i","d","=","$","1">>,
     <<" ","W","H","E","R","E"," ","i","d"," ","="," ","$","1">>,
     <<" ","W","H","E","R","E"," ","I","D","=","$","1">> >>
\* What each filter clause is: none, a user-id predicate, or a single-row id lookup.
PredicateKind ==
  << "none",
     "user",
     "user",
     "user",
     "user",
     "id",
     "id",
     "id" >>
\* system_queries of _has_user_filter.
system_queries ==
  << <<"I","N","F","O","R","M","A","T","I","O","N","_","S","C","H","E","M","A">>,
     <<"S","H","O","W"," ","T","A","B","L","E","S">>,
     <<"D","E","S","C","R","I","B","E">>,
     <<"S","E","L","E","C","T"," ","1">>,
     <<"S","E","L","E","C","T"," ","C","O","U","N","T","(","*",")"," ","F","R","O","M"," ","I","N","F","O","R","M","A","T","I","O","N","_","S","C","H","E","M","A">> >>
\* user_filter_patterns of _has_user_filter.
user_filter_patterns ==
  << <<"\"","U","S","E","R","I","D","\"">>,
     <<"U","S","E","R","I","D">>,
     <<"\"","u","s","e","r","I","d","\"">>,
     <<"u","s","e","r","I","d">>,
     <<"W","H","E","R","E"," ","i","d","=","$">>,
     <<"W","H","E","R","E"," ","I","D","=","$">> >>
\* The operation words secure_execute looks for.
modification_ops ==
  << <<"U","P","D","A","T","E">>,
     <<"D","E","L","E","T","E">> >>

NumStatements == Len(StatementText)
NumPredicates == Len(PredicateText)
\* A query is a statement body followed by a filter clause.
Queries == (1..NumStatements) \X (1..NumPredicates)
QueryText(q) == StatementText[q[1]] \o PredicateText[q[2]]
\* The queries handed to secure_fetch, secure_fetchrow and secure_execute in a
\* run: a read and an update, each stripped and with a quoted user-id
\* predicate, a stripped delete, an insert and a schema listing.
GuardedQueries == ({1, 5} \X {1, 2}) \cup {<<6, 1>>, <<7, 1>>, <<8, 1>>}
\* The user ids passed as the parameter of those queries.
ParamIds == {"u1", "u2"}

\* SecureDataAccess._has_user_filter
_has_user_filter(query) ==
  LET query_upper == Upper(query)
  IN  IF \E k \in 1..Len(system_queries) : Contains(query_upper, system_queries[k])
        THEN TRUE
        ELSE \E k \in 1..Len(user_filter_patterns) :
               Contains(query_upper, user_filter_patterns[k])

\* A faulty variant of the test below, which looks for 'UPDATE' alone.
is_modification_update_only(query) == Contains(Upper(query), modification_ops[1])

\* secure_execute: any(op in query.upper() for op in ['UPDATE', 'DELETE'])
is_modification(query) ==
  \E k \in 1..Len(modification_ops) : Contains(Upper(query), modification_ops[k])

\* The two checks on every query of the model, tabulated.
FilterOf == [q \in Queries |-> _has_user_filter(QueryText(q))] @@ <<>>
ModificationOf == [q \in Queries |-> is_modification(QueryText(q))] @@ <<>>

----------------------------------------------------------------------------
(* JSON values and the patches of the update requests *)

\* A timezone text of 51 characters.
LongTimezone == "America/Argentina/ComodRivadavia/and-fifteen-more__"

\* The JSON values of the model, by type; a value is written as its JSON text.
JsonBooleans == {"true", "false"}
JsonIntegers == {"1", "10", "25", "50", "500"}
JsonStrings == {"miles", "kilometers", "furlongs", "UTC", "Europe/Paris", "yes",
                "en", "YYYY-MM-DD", "pace", "shoes", "positive", "neutral", "angry",
                LongTimezone}

\* int(value) of a JSON integer, and of a boolean (bool is a subclass of int).
int == ("1" :> 1) @@ ("10" :> 10) @@ ("25" :> 25) @@ ("50" :> 50) @@ ("500" :> 500)
         @@ ("true" :> 1) @@ ("false" :> 0)

\* len(value) of a JSON string.
len(value) == Len(value)

\* isinstance(value, int), isinstance(value, bool), isinstance(value, str)
isinstance_int(value) == value \in JsonIntegers \cup JsonBooleans
isinstance_bool(value) == value \in JsonBooleans
isinstance_str(value) == value \in JsonStrings

\* A patch is the items of a JSON object, in order: <<key, value>> pairs.
has_key(items, key) == \E i \in 1..Len(items) : items[i][1] = key
value_of(items, key) == items[CHOOSE i \in 1..Len(items) : items[i][1] = key][2]

\* The preference patches callers send.
PreferencePatches ==
  { << <<"distance_unit", "kilometers">> >>,
    << <<"max_results_per_query", "50">>, <<"theme", "yes">> >>,
    << <<"timezone", "Europe/Paris">>, <<"copy", "1">> >>,
    << <<"distance_unit", "kilometers">>, <<"max_results_per_query", "500">> >>,
    << <<"distance_unit", "furlongs">> >>,
    << <<"max_results_per_query", "true">> >>,
    << <<"notification_enabled", "yes">> >>,
    << <<"detailed_responses", "1">> >>,
    << <<"timezone", LongTimezone>> >> }

\* The conversation-context patches callers send.
ContextPatches ==
  { << <<"last_topic", "pace">> >>,
    << <<"conversation_mood", "positive">>, <<"theme", "yes">> >>,
    << <<"last_topic", "shoes">>, <<"conversation_mood", "angry">> >> }

----------------------------------------------------------------------------
(* State *)

VARIABLES
  now,              \* datetime.utcnow(), in minutes
  active_sessions,  \* UserContextManager.active_sessions: user id -> UserSession
  current_user_id,  \* UserContextManager.current_user_id
  initialized,      \* UserContextManager._initialized
  db,               \* the rows of "UserSessions": id -> row
  next_oid,         \* session objects constructed so far
  first_session,    \* per user, the session the first successful set_current_user returned
  ret,              \* what the last operation did and returned
  users,            \* the rows of "Users": id -> row
  flushed,          \* the users whose session was not mutated since its last successful write
  second,           \* time.time(): the seconds into the minute `now`
  rate_limits,      \* SecurityValidator.rate_limits: key -> timestamps
  failed_attempts,  \* SecurityValidator.failed_attempts: key -> timestamps
  journal,          \* what an observer of the calls noted: per kind of event
                    \* and key, the times it happened
  tasks             \* the coroutines suspended at an await: their position
                    \* and their local variables

\* The state of the SecurityValidator, with the seconds clock it reads.
security == <<second, rate_limits, failed_attempts>>

vars == <<now, active_sessions, current_user_id, initialized, db, next_oid,
          first_session, ret, users, flushed, security, journal, tasks>>

\* The background save loop between two ticks.
SaverIdle == [pc |-> "sleep", i |-> 0, size |-> 0, snapshot |-> <<>>]

\* The background expiry sweep between two ticks.  expired: the users of
\* expired_sessions; i: the position of its for-loop.
SweepIdle == [pc |-> "sleep", expired |-> <<>>, i |-> 0, snapshot |-> <<>>]

\* The coroutines that call set_current_user.
Callers == {1, 2}

\* A caller that has not called yet.  order, rows, k: the rows its recovery
\* fetched and its position among them; marked: the rows it marked inactive;
\* session: the session it built and has not stored yet.
CallIdle ==
  [ pc |-> "idle", user_id |-> "None", order |-> <<>>, rows |-> <<>>, k |-> 0,
    marked |-> <<>>, session |-> <<>>, returned |-> 0, raised |-> "none" ]

\* No coroutine is in flight.
NoTasks ==
  [saver |-> SaverIdle, sweep |-> SweepIdle, calls |-> [c \in Callers |-> CallIdle]]

\* time.time(), in seconds.
time == now * 60 + second

----------------------------------------------------------------------------
(* UserSession *)

\* datetime.isoformat / datetime.fromisoformat
isoformat(t) == <<"iso", t>>
fromisoformat(s) == s[2]

\* The fields of UserPreferences and their defaults.  A value is written as
\* its JSON text: "true" is the boolean, "10" the integer.
DefaultPreferences ==
  [ distance_unit |-> "miles", date_format |-> "YYYY-MM-DD", timezone |-> "UTC",
    language |-> "en", notification_enabled |-> "true",
    detailed_responses |-> "true", include_social_data |-> "true",
    max_results_per_query |-> "10" ]
PreferenceFields == DOMAIN DefaultPreferences

\* session.preferences = None
NoPreferences == <<>>

\* UserPreferences(**d): the fields d names, the defaults for the others; keys
\* that are no fields are dropped (the model's default extra='ignore').
UserPreferences(d) ==
  [k \in PreferenceFields |-> IF k \in DOMAIN d THEN d[k] ELSE DefaultPreferences[k]]

\* ConversationContext() after __post_init__.
DefaultContext ==
  [ last_topic |-> None, mentioned_runs |-> <<>>, mentioned_shoes |-> <<>>,
    mentioned_goals |-> <<>>, conversation_mood |-> "neutral", last_action |-> None ]
ContextFields == DOMAIN DefaultContext

\* ConversationContext(**d)
ConversationContext(d) ==
  [k \in ContextFields |-> IF k \in DOMAIN d THEN d[k] ELSE DefaultContext[k]]

\* UserSession.__init__(user_id): a new object with a session id made of the
\* user id and the clock.
UserSession(oid, user_id, t) ==
  [ oid |-> oid, user_id |-> user_id, session_id |-> <<user_id, t>>,
    created_at |-> t, last_activity |-> t, db_id |-> NoDbId,
    needs_db_save |-> FALSE,
    preferences |-> NoPreferences, conversation_context |-> DefaultContext,
    cached_user_data |-> <<>>, session_metadata |-> <<>> ]

\* UserSession.update_activity
update_activity(s, t) == [s EXCEPT !.last_activity = t, !.needs_db_save = TRUE]

\* A faulty variant of is_expired, which applies the 24 hours of the durable
\* row's expiresAt instead of the idle timeout.
is_expired_durable(s, t) == t > s.last_activity + ExpiresAfterMinutes

\* UserSession.is_expired
is_expired(s, t) == t > s.last_activity + IdleTimeoutMinutes

\* UserSession.mark_dirty
mark_dirty(s) == [s EXCEPT !.needs_db_save = TRUE]

\* A faulty variant of mark_clean, which leaves the flag as it is.
mark_clean_keeps_flag(s) == s

\* UserSession.mark_clean
mark_clean(s) == [s EXCEPT !.needs_db_save = FALSE]

\* json.dumps / json.loads of a dictionary
json_dumps(d) == <<"json", d>>
json_loads(text) == text[2]

\* preferences.dict() and asdict(conversation_context): the fields as a dictionary.
dict(model) == [k \in DOMAIN model |-> model[k]]

\* UserSession.to_dict
to_dict(s) ==
  [ user_id |-> s.user_id, session_id |-> s.session_id,
    created_at |-> isoformat(s.created_at),
    last_activity |-> isoformat(s.last_activity),
    preferences |-> dict(s.preferences),
    conversation_context |-> dict(s.conversation_context),
    cached_user_data |-> s.cached_user_data,
    session_metadata |-> s.session_metadata ]

\* A faulty variant of from_dict, which does not pass the stored session id
\* to the constructor and leaves the new object's creation time in place.
from_dict_new_id(oid, data, db_id) ==
  [ oid |-> oid, user_id |-> data.user_id,
    session_id |-> <<data.user_id, fromisoformat(data.last_activity)>>,
    created_at |-> fromisoformat(data.last_activity),
    last_activity |-> fromisoformat(data.last_activity),
    db_id |-> db_id, needs_db_save |-> FALSE,
    preferences |-> UserPreferences(data.preferences),
    conversation_context |-> ConversationContext(data.conversation_context),
    cached_user_data |-> data.cached_user_data,
    session_metadata |-> data.session_metadata ]

\* UserSession.from_dict: a new object built from a stored dictionary.
from_dict(oid, data, db_id) ==
  [ oid |-> oid, user_id |-> data.user_id, session_id |-> data.session_id,
    created_at |-> fromisoformat(data.created_at),
    last_activity |-> fromisoformat(data.last_activity),
    db_id |-> db_id, needs_db_save |-> FALSE,
    preferences |-> IF DOMAIN data.preferences # {}
                      THEN UserPreferences(data.preferences) ELSE NoPreferences,
    conversation_context |-> IF DOMAIN data.conversation_context # {}
                               THEN ConversationContext(data.conversation_context)
                               ELSE DefaultContext,
    cached_user_data |-> data.cached_user_data,
    session_metadata |-> data.session_metadata ]

----------------------------------------------------------------------------
(* The "Users" table *)

\* The rows of "Users" a new process finds.
UserRows ==
  [ u1 |-> [name |-> "Ann", defaultDistanceUnit |-> "miles"],
    u2 |-> [name |-> "Bob", defaultDistanceUnit |-> "kilometers"] ]

\* UserContextManager._load_user_preferences: the defaults with the user's
\* distance unit.
_load_user_preferences(usersx, user_id) ==
  UserPreferences([distance_unit |-> usersx[user_id].defaultDistanceUnit])

\* UserContextManager._cache_user_data
_cache_user_data(usersx, user_id) == [name |-> usersx[user_id].name]

\* UserContextManager._save_user_preferences: UPDATE "Users" SET
\* "defaultDistanceUnit"=$1 WHERE id=$2; a failure is swallowed.
_save_user_preferences(usersx, s, ok) ==
  IF ok /\ s.user_id \in DOMAIN usersx /\ DOMAIN s.preferences # {}
    THEN [usersx EXCEPT ![s.user_id].defaultDistanceUnit = s.preferences.distance_unit]
    ELSE usersx

----------------------------------------------------------------------------
(* The "UserSessions" table *)

\* The values _save_session_to_db passes to its INSERT for session s.
StoredRow(s, active) ==
  [ userId |-> s.user_id, sessionId |-> s.session_id,
    sessionData |-> json_dumps(to_dict(s)),
    createdAt |-> s.created_at, lastActivity |-> s.last_activity,
    expiresAt |-> s.last_activity + ExpiresAfterMinutes, active |-> active ]

\* A session an earlier process held when it last wrote it: created at
\* `created`, last active at la, with preferences, conversation context and
\* cached profile data that differ from what a new session would get.
SavedSession(user_id, created, la) ==
  [ UserSession(NoObject, user_id, created)
      EXCEPT !.last_activity = la,
             !.preferences = [DefaultPreferences EXCEPT !.distance_unit = "kilometers",
                                                        !.max_results_per_query = "25"],
             !.conversation_context = [DefaultContext EXCEPT !.last_topic = "shoes",
                                                             !.mentioned_runs = <<"r1">>],
             !.cached_user_data = [name |-> "a former name"] ]

\* The sessions behind the rows earlier processes may have left behind: two
\* active rows of each of u1 and u2, an active row of u1 past its expiresAt,
\* and an inactive row of u2 older than the retention.
LeftoverSessions ==
  << SavedSession("u1", StartTime - 200, StartTime - 100),
     SavedSession("u1", StartTime - 50, StartTime - 20),
     SavedSession("u2", StartTime - 40, StartTime - 30),
     SavedSession("u2", StartTime - 300, StartTime - 120),
     SavedSession("u1", StartTime - 1600, StartTime - 1500),
     SavedSession("u2", StartTime - 10100, StartTime - 10090) >>

LeftoverRows ==
  [k \in 1..Len(LeftoverSessions) |-> StoredRow(LeftoverSessions[k], k # 6)]

\* The tables a new process may find.
InitialTables == {{}, {2}, {1, 2}, 1..Len(LeftoverRows)}

\* WHERE active=true AND "expiresAt" > NOW()
ActiveUnexpired(dbx, t) == {id \in DOMAIN dbx : dbx[id].active /\ dbx[id].expiresAt > t}

\* A faulty variant of the order below: ORDER BY "lastActivity" ASC.
OrderedByLastActivityAsc(dbx, ids) ==
  { o \in [1..Cardinality(ids) -> ids] :
      /\ \A i, j \in 1..Cardinality(ids) : i # j => o[i] # o[j]
      /\ \A i \in 1..(Cardinality(ids) - 1) :
           dbx[o[i]].lastActivity <= dbx[o[i + 1]].lastActivity }

\* ORDER BY "lastActivity" DESC: every order of the ids the clause allows.
OrderedByLastActivityDesc(dbx, ids) ==
  { o \in [1..Cardinality(ids) -> ids] :
      /\ \A i, j \in 1..Cardinality(ids) : i # j => o[i] # o[j]
      /\ \A i \in 1..(Cardinality(ids) - 1) :
           dbx[o[i]].lastActivity >= dbx[o[i + 1]].lastActivity }

\* uuid.uuid4() of _save_session_to_db: an id no other row has (a session
\* object draws one at most once).
uuid4(s) == Len(LeftoverRows) + s.oid

\* UserContextManager._save_session_to_db: the session (its db_id may be set)
\* and the table afterwards.  ok: the statement is executed; otherwise
\* execute_with_timeout raises and the error is swallowed.
_save_session_to_db(s, active, ok, dbx) ==
  LET session_data == json_dumps(to_dict(s))
      expires_at == s.last_activity + ExpiresAfterMinutes
  IN  IF s.db_id # NoDbId
        THEN [ session |-> s,
               db |-> IF ok /\ s.db_id \in DOMAIN dbx
                        THEN [dbx EXCEPT ![s.db_id] =
                               [@ EXCEPT !.sessionData = session_data,
                                         !.lastActivity = s.last_activity,
                                         !.expiresAt = expires_at,
                                         !.active = active]]
                        ELSE dbx ]
        ELSE LET id == uuid4(s)
             IN  [ session |-> [s EXCEPT !.db_id = id],
                   db |-> IF ok
                            THEN (id :> [ userId |-> s.user_id,
                                          sessionId |-> s.session_id,
                                          sessionData |-> session_data,
                                          createdAt |-> s.created_at,
                                          lastActivity |-> s.last_activity,
                                          expiresAt |-> expires_at,
                                          active |-> active ]) @@ dbx
                            ELSE dbx ]

\* UserContextManager._load_session_from_db: the rows the query may return
\* (WHERE "userId"=$1 AND active AND "expiresAt" > NOW() ORDER BY
\* "lastActivity" DESC LIMIT 1); no row, or a failed read, gives None.
LoadCandidates(dbx, user_id, t) ==
  LET mine == {id \in ActiveUnexpired(dbx, t) : dbx[id].userId = user_id}
  IN  {id \in mine : \A other \in mine : dbx[id].lastActivity >= dbx[other].lastActivity}

\* A faulty variant of the method below, without its try/except: a failed
\* read raises.
_load_session_from_db_raising(dbx, user_id, t, ok) ==
  [ rows |-> IF ok THEN LoadCandidates(dbx, user_id, t) ELSE {},
    raised |-> IF ok THEN "none" ELSE "DatabaseOperationError" ]

\* UserContextManager._load_session_from_db (ok: the read succeeds): the rows
\* it may build the session from, and the exception that leaves it.
_load_session_from_db(dbx, user_id, t, ok) ==
  [ rows |-> IF ok THEN LoadCandidates(dbx, user_id, t) ELSE {}, raised |-> "none" ]

\* UserContextManager._cleanup_old_sessions_from_db
_cleanup_old_sessions_from_db(dbx, t, ok) ==
  IF ok
    THEN LET cutoff_date == t - RetentionMinutes
             kept == {id \in DOMAIN dbx : ~(dbx[id].lastActivity < cutoff_date)}
         IN  [id \in kept |-> dbx[id]]
    ELSE dbx

----------------------------------------------------------------------------
(* What an operation reports *)

\* The record of an operation that did nothing yet.
Idle ==
  [ op |-> "start", user |-> None, raised |-> "none",
    session |-> NoObject, source |-> "none", prev_la |-> -1,
    recovered |-> "no", marked |-> <<>>, mark_failed |-> {},
    cur |-> None, query |-> <<0, 0>>, param |-> None, result |-> FALSE,
    violations |-> 0, accesses |-> 0, dbcalls |-> 0, executed |-> FALSE,
    load |-> "none", written |-> {}, write_failed |-> {},
    patch |-> <<>>, message |-> "none", profile_writes |-> 0, budget |-> 0,
    lookup |-> "none", save |-> "none",
    max_retries |-> <<>>, outcomes |-> <<>>, calls |-> 0, returned |-> "none" ]

----------------------------------------------------------------------------
(* UserContextManager *)

\* The for-loop of _recover_sessions_on_startup, from position i of the rows
\* the query returned.  failed: the rows whose UPDATE raises.
RECURSIVE RecoverRows(_, _, _, _)
RecoverRows(order, i, st, failed) ==
  IF i > Len(order)
    THEN st
    ELSE LET id == order[i]
             session == from_dict(st.next_oid + 1, json_loads(st.rows[id].sessionData), id)
         IN  IF session.user_id \notin DOMAIN st.active
               THEN RecoverRows(order, i + 1,
                      [st EXCEPT !.active = (session.user_id :> session) @@ @,
                                 !.next_oid = @ + 1], failed)
               ELSE IF id \in failed
                      THEN RecoverRows(order, i + 1,
                             [st EXCEPT !.mark_failed = @ \cup {id}], failed)
                      ELSE RecoverRows(order, i + 1,
                             [st EXCEPT !.db = [@ EXCEPT ![id].active = FALSE],
                                        !.marked = Append(@, id)], failed)

\* UserContextManager._recover_sessions_on_startup.  fetchOk: the SELECT
\* returns its rows, in the order `order`; otherwise it raises.
_recover_sessions_on_startup(act, dbx, init, oid, fetchOk, order, failed) ==
  LET st0 == [ active |-> act, db |-> dbx, rows |-> dbx, next_oid |-> oid,
               marked |-> <<>>, mark_failed |-> {}, ran |-> "no" ]
  IN  IF init
        THEN st0
        ELSE IF fetchOk
               THEN [RecoverRows(order, 1, st0, failed) EXCEPT !.ran = "ok"]
               ELSE [st0 EXCEPT !.ran = "failed"]

\* A faulty variant of the assignment below, made before the user row is looked at.
pointer_moved_first(old, user_id, found) == user_id

\* set_current_user, lines 199-202: the pointer moves only once the user row
\* was found.
pointer_after_lookup(old, user_id, found) == IF found THEN user_id ELSE old

\* A faulty variant of the test below, which never finds the session.
in_active_sessions_never(act, user_id) == FALSE

\* set_current_user, line 205: `user_id in self.active_sessions`.
in_active_sessions(act, user_id) == user_id \in DOMAIN act

\* UserContextManager.get_current_session: the session returned (as a
\* sequence, empty for None), and the map and the pointer afterwards.
current_session(act, cur, t) ==
  IF cur # None /\ cur # "" /\ cur \in DOMAIN act
    THEN IF ~is_expired(act[cur], t)
           THEN [ returned |-> <<update_activity(act[cur], t)>>,
                  active |-> [act EXCEPT ![cur] = update_activity(@, t)],
                  current |-> cur ]
           ELSE [ returned |-> <<>>,
                  active |-> [u \in (DOMAIN act) \ {cur} |-> act[u]],
                  current |-> None ]
    ELSE [ returned |-> <<>>, active |-> act, current |-> cur ]

\* UserContextManager.get_current_user_id, on the result of get_current_session.
user_id_of(cs) == IF cs.returned = <<>> THEN None ELSE cs.returned[1].user_id

\* The body of set_current_user on the state (act, cur), reported in base0.
SetCurrentUser(base0, act, cur, user_id, fetchOk, order, failed, lookupOk, loadOk) ==
  LET rec == _recover_sessions_on_startup(act, db, initialized,
                                          next_oid, fetchOk, order, failed)
      found == lookupOk /\ user_id \in ExistingUsers
      base == [base0 EXCEPT !.user = user_id, !.recovered = rec.ran,
                            !.marked = rec.marked, !.mark_failed = rec.mark_failed,
                            !.lookup = IF lookupOk THEN "ok" ELSE "failed"]
      loaded == _load_session_from_db(rec.db, user_id, now, loadOk)
      cands == LoadCandidates(rec.db, user_id, now)
      done(session, source, prev) ==
        /\ active_sessions' = (user_id :> session) @@ rec.active
        /\ next_oid' = IF source = "memory" THEN rec.next_oid ELSE rec.next_oid + 1
        /\ ret' = [base EXCEPT !.session = session.oid, !.source = source,
                               !.prev_la = prev,
                               !.load = IF source = "memory" THEN "none"
                                        ELSE IF cands = {} THEN "empty"
                                        ELSE IF loadOk THEN "ok" ELSE "failed"]
        /\ first_session' =
             IF first_session[user_id].oid = NoObject
               THEN [first_session EXCEPT ![user_id] =
                      [oid |-> session.oid, session_id |-> session.session_id]]
               ELSE first_session
  IN  /\ initialized' = TRUE
      /\ db' = rec.db
      /\ current_user_id' = pointer_after_lookup(cur, user_id, found)
      /\ flushed' = (flushed \cup (DOMAIN rec.active \ DOMAIN act))
                       \ (IF found THEN {user_id} ELSE {})
      /\ UNCHANGED <<now, users>>
      /\ IF ~found
           THEN /\ active_sessions' = rec.active
                /\ next_oid' = rec.next_oid
                /\ ret' = [base EXCEPT !.raised =
                            IF lookupOk THEN "ValueError" ELSE "DatabaseOperationError"]
                /\ UNCHANGED first_session
           ELSE IF in_active_sessions(rec.active, user_id)
                  THEN done(update_activity(rec.active[user_id], now), "memory",
                            rec.active[user_id].last_activity)
                  ELSE IF loaded.raised # "none"
                         THEN /\ active_sessions' = rec.active
                              /\ next_oid' = rec.next_oid
                              /\ ret' = [base EXCEPT !.raised = loaded.raised,
                                                     !.load = "failed"]
                              /\ UNCHANGED first_session
                  ELSE IF loaded.rows # {}
                         THEN \E id \in loaded.rows :
                                LET session == from_dict(rec.next_oid + 1,
                                                         json_loads(rec.db[id].sessionData), id)
                                IN  done(update_activity(session, now), "db",
                                         session.last_activity)
                         ELSE done([mark_dirty(UserSession(rec.next_oid + 1, user_id, now))
                                     EXCEPT !.preferences =
                                              _load_user_preferences(users, user_id),
                                            !.cached_user_data =
                                              _cache_user_data(users, user_id)],
                                   "fresh", -1)
      /\ next_oid' <= MaxObjects

\* The inputs of one set_current_user call on the state (act, cur): the
\* outcome of each database call (a failed user lookup ends the call, so the
\* later outcomes do not matter).
SetCurrentUserInputs(base0, act, cur, user_id) ==
  \E outcome \in {<<FALSE, TRUE>>, <<TRUE, FALSE>>, <<TRUE, TRUE>>} :
    \E fetchOk \in (IF initialized THEN {TRUE} ELSE BOOLEAN) :
      \E failed \in (IF initialized \/ ~fetchOk THEN {{}}
                     ELSE SUBSET ActiveUnexpired(db, now)) :
        \E order \in (IF initialized \/ ~fetchOk THEN {<<>>}
                      ELSE OrderedByLastActivityDesc(db, ActiveUnexpired(db, now))) :
          SetCurrentUser(base0, act, cur, user_id, fetchOk, order, failed,
                         outcome[1], outcome[2])

\* set_current_user, step by step: one action per await at which the call
\* is suspended.  The call begins: _recover_sessions_on_startup returns at
\* once on an initialized manager, otherwise its SELECT is awaited.
CallBegin(c, user_id) ==
  /\ tasks.calls[c].pc = "idle"
  /\ tasks' = [tasks EXCEPT !.calls[c] =
                 [CallIdle EXCEPT !.pc = IF initialized THEN "lookup" ELSE "recover_fetch",
                                  !.user_id = user_id]]
  /\ ret' = [Idle EXCEPT !.op = "set_current_user.begin", !.user = user_id]
  /\ UNCHANGED <<now, active_sessions, current_user_id, initialized, db, next_oid,
                 first_session, users, flushed, security, journal>>

\* The for-loop of _recover_sessions_on_startup from the row the frame is at,
\* up to its next await (the UPDATE of a row whose user is in the map
\* already) or to its end.
RECURSIVE RecoverFrom(_, _)
RecoverFrom(f, st) ==
  IF f.k > Len(f.order)
    THEN [frame |-> [f EXCEPT !.pc = "lookup"], active |-> st.active,
          next_oid |-> st.next_oid, finished |-> TRUE]
    ELSE LET id == f.order[f.k]
             session == from_dict(st.next_oid + 1, json_loads(f.rows[id].sessionData), id)
         IN  IF session.user_id \notin DOMAIN st.active
               THEN RecoverFrom([f EXCEPT !.k = @ + 1],
                                [active |-> (session.user_id :> session) @@ st.active,
                                 next_oid |-> st.next_oid + 1])
               ELSE [frame |-> [f EXCEPT !.pc = "recover_mark"], active |-> st.active,
                     next_oid |-> st.next_oid, finished |-> FALSE]

\* The recovery of caller c goes on from frame f.
RecoveryContinues(c, f) ==
  LET r == RecoverFrom(f, [active |-> active_sessions, next_oid |-> next_oid])
  IN  /\ active_sessions' = r.active
      /\ next_oid' = r.next_oid
      /\ next_oid' <= MaxObjects
      /\ initialized' = (initialized \/ r.finished)
      /\ flushed' = flushed \cup (DOMAIN r.active \ DOMAIN active_sessions)
      /\ tasks' = [tasks EXCEPT !.calls[c] = r.frame]

\* The SELECT of the recovery returns its rows, or raises.
RecoverFetched(c) ==
  LET f == tasks.calls[c]
  IN  /\ f.pc = "recover_fetch"
      /\ ret' = [Idle EXCEPT !.op = "set_current_user.recover_fetch", !.user = f.user_id]
      /\ \/ \E order \in OrderedByLastActivityDesc(db, ActiveUnexpired(db, now)) :
              RecoveryContinues(c, [f EXCEPT !.order = order, !.rows = db, !.k = 1])
         \/ /\ initialized' = TRUE
            /\ tasks' = [tasks EXCEPT !.calls[c] = [f EXCEPT !.pc = "lookup"]]
            /\ UNCHANGED <<active_sessions, next_oid, flushed>>
      /\ UNCHANGED <<now, current_user_id, db, first_session, users, security, journal>>

\* The UPDATE ... SET active=false of the recovery completes (ok) or raises,
\* which is swallowed; the loop goes on.
RecoverMarked(c) ==
  LET f == tasks.calls[c]
      id == f.order[f.k]
  IN  /\ f.pc = "recover_mark"
      /\ ret' = [Idle EXCEPT !.op = "set_current_user.recover_mark", !.user = f.user_id]
      /\ \E ok \in BOOLEAN :
           /\ db' = IF ok /\ id \in DOMAIN db THEN [db EXCEPT ![id].active = FALSE] ELSE db
           /\ RecoveryContinues(c, [f EXCEPT !.k = @ + 1,
                                             !.marked = IF ok THEN Append(@, id) ELSE @])
      /\ UNCHANGED <<now, current_user_id, first_session, users, security, journal>>

\* The SELECT on "Users" returns: without a row the call raises; otherwise
\* the pointer moves, and a session in the map is returned, or the SELECT of
\* _load_session_from_db is awaited.
LookupDone(c) ==
  LET f == tasks.calls[c]
      user_id == f.user_id
      rec == [Idle EXCEPT !.op = "set_current_user.lookup", !.user = user_id]
  IN  /\ f.pc = "lookup"
      /\ \E lookupOk \in BOOLEAN :
           LET found == lookupOk /\ user_id \in ExistingUsers
           IN  /\ current_user_id' = pointer_after_lookup(current_user_id, user_id, found)
               /\ IF ~found
                    THEN /\ tasks' = [tasks EXCEPT !.calls[c] =
                                       [f EXCEPT !.pc = "done", !.raised =
                                          IF lookupOk THEN "ValueError"
                                          ELSE "DatabaseOperationError"]]
                         /\ ret' = [rec EXCEPT !.raised =
                                      IF lookupOk THEN "ValueError"
                                      ELSE "DatabaseOperationError"]
                         /\ UNCHANGED <<active_sessions, flushed>>
                  ELSE IF in_active_sessions(active_sessions, user_id)
                    THEN /\ active_sessions' =
                              [active_sessions EXCEPT ![user_id] = update_activity(@, now)]
                         /\ flushed' = flushed \ {user_id}
                         /\ tasks' = [tasks EXCEPT !.calls[c] =
                                       [f EXCEPT !.pc = "done",
                                                 !.returned = active_sessions[user_id].oid]]
                         /\ ret' = [rec EXCEPT !.session = active_sessions[user_id].oid,
                                               !.source = "memory"]
                  ELSE /\ tasks' = [tasks EXCEPT !.calls[c] = [f EXCEPT !.pc = "loading"]]
                       /\ ret' = rec
                       /\ UNCHANGED <<active_sessions, flushed>>
      /\ UNCHANGED <<now, initialized, db, next_oid, first_session, users, security,
                     journal>>

\* The SELECT of _load_session_from_db returns: the session built from its
\* row is stored and returned; without a row a new UserSession is built and
\* the SELECTs of _load_user_preferences and _cache_user_data are awaited.
Loaded(c) ==
  LET f == tasks.calls[c]
      user_id == f.user_id
      rec == [Idle EXCEPT !.op = "set_current_user.loaded", !.user = user_id]
  IN  /\ f.pc = "loading"
      /\ next_oid' = next_oid + 1
      /\ next_oid' <= MaxObjects
      /\ \E loadOk \in BOOLEAN :
           LET loaded == _load_session_from_db(db, user_id, now, loadOk)
           IN  IF loaded.rows # {}
                 THEN \E id \in loaded.rows :
                        LET session == from_dict(next_oid', json_loads(db[id].sessionData), id)
                        IN  /\ active_sessions' =
                                 (user_id :> update_activity(session, now)) @@ active_sessions
                            /\ tasks' = [tasks EXCEPT !.calls[c] =
                                          [f EXCEPT !.pc = "done", !.returned = session.oid]]
                            /\ ret' = [rec EXCEPT !.session = session.oid, !.source = "db"]
                 ELSE /\ tasks' = [tasks EXCEPT !.calls[c] =
                                    [f EXCEPT !.pc = "created", !.session =
                                       <<mark_dirty(UserSession(next_oid', user_id, now))>>]]
                      /\ ret' = rec
                      /\ UNCHANGED active_sessions
      /\ flushed' = flushed \ {user_id}
      /\ UNCHANGED <<now, current_user_id, initialized, db, first_session, users,
                     security, journal>>

\* _load_user_preferences and _cache_user_data have returned: the new
\* session is stored in the map and returned.
Created(c) ==
  LET f == tasks.calls[c]
      user_id == f.user_id
      session == [f.session[1] EXCEPT
                    !.preferences = _load_user_preferences(users, user_id),
                    !.cached_user_data = _cache_user_data(users, user_id)]
  IN  /\ f.pc = "created"
      /\ active_sessions' = (user_id :> session) @@ active_sessions
      /\ tasks' = [tasks EXCEPT !.calls[c] =
                     [f EXCEPT !.pc = "done", !.session = <<>>, !.returned = session.oid]]
      /\ ret' = [Idle EXCEPT !.op = "set_current_user.created", !.user = user_id,
                             !.session = session.oid, !.source = "fresh"]
      /\ flushed' = flushed \ {user_id}
      /\ UNCHANGED <<now, current_user_id, initialized, db, next_oid, first_session,
                     users, security, journal>>

\* A call of the manager's set_current_user, entered as `op`.
SetCurrentUserCall(op, user_id) ==
  /\ SetCurrentUserInputs([Idle EXCEPT !.op = op], active_sessions, current_user_id,
                          user_id)
  /\ UNCHANGED <<security, journal, tasks>>

\* UserContextManager.set_current_user
set_current_user(user_id) == SetCurrentUserCall("set_current_user", user_id)

\* UserContextManager.switch_user_context
switch_user_context(user_id) == set_current_user(user_id)

\* UserContextManager.get_current_session
get_current_session ==
  LET cs == current_session(active_sessions, current_user_id, now)
  IN  /\ active_sessions' = cs.active
      /\ current_user_id' = cs.current
      /\ ret' = [Idle EXCEPT !.op = "get_current_session",
                             !.user = current_user_id,
                             !.session = IF cs.returned = <<>> THEN NoObject
                                         ELSE cs.returned[1].oid]
      /\ flushed' = flushed \ {current_user_id}
      /\ UNCHANGED <<now, initialized, db, next_oid, first_session, users, security, journal, tasks>>

\* UserContextManager.clear_current_user
clear_current_user ==
  /\ current_user_id' = None
  /\ ret' = [Idle EXCEPT !.op = "clear_current_user", !.user = current_user_id]
  /\ UNCHANGED <<now, active_sessions, initialized, db, next_oid, first_session,
                 users, flushed, security, journal, tasks>>

\* The users of the map in the order the loops visit them.
UserOrder == <<"u1", "u2", "u9">>

\* The for-loop of _periodic_save_sessions from position i: every dirty
\* session is written (failed: the users whose write raises) and marked clean.
RECURSIVE SaveDirty(_, _, _)
SaveDirty(i, st, failed) ==
  IF i > Len(UserOrder)
    THEN st
    ELSE LET u == UserOrder[i]
         IN  IF u \in DOMAIN st.active /\ st.active[u].needs_db_save
               THEN LET r == _save_session_to_db(st.active[u], TRUE, u \notin failed, st.db)
                    IN  SaveDirty(i + 1,
                          [ active |-> [st.active EXCEPT ![u] = mark_clean(r.session)],
                            db |-> r.db, written |-> st.written \cup {u} ], failed)
               ELSE SaveDirty(i + 1, st, failed)

\* One iteration of UserContextManager._periodic_save_sessions.
_periodic_save_sessions ==
  \E failed \in SUBSET {u \in DOMAIN active_sessions : active_sessions[u].needs_db_save} :
    LET st == SaveDirty(1, [active |-> active_sessions, db |-> db, written |-> {}],
                        failed)
    IN  /\ active_sessions' = st.active
        /\ db' = st.db
        /\ ret' = [Idle EXCEPT !.op = "_periodic_save_sessions",
                               !.written = st.written, !.write_failed = failed]
        /\ flushed' = flushed \cup (st.written \ failed)
        /\ UNCHANGED <<now, current_user_id, initialized, next_oid, first_session,
                       users, security, journal, tasks>>

\* _periodic_save_sessions coroutine, step by step: one action per await
\* at which it is suspended.  The for-loop over active_sessions.values() from
\* the frame's position up to its next await or to its end: a dictionary that
\* changed size since the iteration began raises RuntimeError, which ends the
\* tick; for a dirty session _save_session_to_db runs up to its await:
\* to_dict() is taken (the snapshot), a session without db_id gets one, and
\* the statement is sent.
RECURSIVE SaverAdvance(_, _)
SaverAdvance(f, act) ==
  IF Cardinality(DOMAIN act) # f.size
    THEN [frame |-> SaverIdle, active |-> act, raised |-> "RuntimeError"]
  ELSE IF f.i > Len(UserOrder)
    THEN [frame |-> SaverIdle, active |-> act, raised |-> "none"]
  ELSE LET u == UserOrder[f.i]
       IN  IF u \in DOMAIN act /\ act[u].needs_db_save
             THEN [frame |-> [f EXCEPT !.pc = "writing", !.snapshot = <<act[u]>>],
                   active |-> [act EXCEPT ![u] =
                                 _save_session_to_db(@, TRUE, FALSE, db).session],
                   raised |-> "none"]
             ELSE SaverAdvance([f EXCEPT !.i = @ + 1], act)

\* The sleep of the save loop ends: a tick begins.
SaverTick ==
  LET r == SaverAdvance([SaverIdle EXCEPT !.pc = "loop", !.i = 1,
                           !.size = Cardinality(DOMAIN active_sessions)],
                        active_sessions)
  IN  /\ tasks.saver.pc = "sleep"
      /\ tasks' = [tasks EXCEPT !.saver = r.frame]
      /\ active_sessions' = r.active
      /\ ret' = [Idle EXCEPT !.op = "_periodic_save_sessions.tick"]
      /\ UNCHANGED <<now, current_user_id, initialized, db, next_oid, first_session,
                     users, flushed, security, journal>>

\* The statement of the save loop completes (ok) or raises, which is
\* swallowed; then session.mark_clean() runs on the session object, and the
\* loop goes on.
SaverWrite ==
  LET f == tasks.saver
      u == UserOrder[f.i]
      snapshot == f.snapshot[1]
      cleaned == IF u \in DOMAIN active_sessions /\ active_sessions[u].oid = snapshot.oid
                   THEN [active_sessions EXCEPT ![u] = mark_clean(@)]
                   ELSE active_sessions
      r == SaverAdvance([f EXCEPT !.pc = "loop", !.i = @ + 1, !.snapshot = <<>>], cleaned)
  IN  /\ f.pc = "writing"
      /\ \E ok \in BOOLEAN :
           /\ db' = _save_session_to_db(snapshot, TRUE, ok, db).db
           /\ ret' = [Idle EXCEPT !.op = "_periodic_save_sessions.write", !.user = u,
                                  !.written = {u},
                                  !.write_failed = IF ok THEN {} ELSE {u},
                                  !.raised = r.raised]
           /\ flushed' = IF /\ ok
                            /\ u \in DOMAIN active_sessions
                            /\ to_dict(active_sessions[u]) = to_dict(snapshot)
                           THEN flushed \cup {u} ELSE flushed
      /\ active_sessions' = r.active
      /\ tasks' = [tasks EXCEPT !.saver = r.frame]
      /\ UNCHANGED <<now, current_user_id, initialized, next_oid, first_session,
                     users, security, journal>>

\* The for-loop of _cleanup_expired_sessions over the expired users, from
\* position i: each is written as inactive and deleted from the map.
RECURSIVE SaveAndRemove(_, _, _, _)
SaveAndRemove(i, expired, st, failed) ==
  IF i > Len(UserOrder)
    THEN st
    ELSE LET u == UserOrder[i]
         IN  IF u \in expired
               THEN LET r == _save_session_to_db(st.active[u], FALSE, u \notin failed, st.db)
                    IN  SaveAndRemove(i + 1, expired,
                          [ active |-> [v \in (DOMAIN st.active) \ {u} |-> st.active[v]],
                            db |-> r.db ], failed)
               ELSE SaveAndRemove(i + 1, expired, st, failed)

\* One iteration of UserContextManager._cleanup_expired_sessions.
_cleanup_expired_sessions ==
  LET expired_sessions == {u \in DOMAIN active_sessions :
                             is_expired(active_sessions[u], now)}
  IN  \E failed \in SUBSET expired_sessions, deleteOk \in BOOLEAN :
        LET st == SaveAndRemove(1, expired_sessions,
                                [active |-> active_sessions, db |-> db], failed)
        IN  /\ active_sessions' = st.active
            /\ db' = _cleanup_old_sessions_from_db(st.db, now, deleteOk)
            /\ ret' = [Idle EXCEPT !.op = "_cleanup_expired_sessions"]
            /\ flushed' = flushed \ expired_sessions
            /\ UNCHANGED <<now, current_user_id, initialized, next_oid, first_session,
                           users, security, journal, tasks>>

\* _cleanup_expired_sessions coroutine, step by step: one action per await
\* at which it is suspended.  The for-loop over expired_sessions at the
\* frame's position: active_sessions[user_id] raises KeyError for a user no
\* longer in the map, which ends the tick; otherwise
\* _save_session_to_db(session, active=False) runs up to its await.  After
\* the last user the bulk DELETE is awaited.
SweepAdvance(f, act) ==
  IF f.i > Len(f.expired)
    THEN [frame |-> [f EXCEPT !.pc = "deleting"], active |-> act, raised |-> "none"]
  ELSE LET u == f.expired[f.i]
       IN  IF u \notin DOMAIN act
             THEN [frame |-> SweepIdle, active |-> act, raised |-> "KeyError"]
             ELSE [frame |-> [f EXCEPT !.pc = "flushing", !.snapshot = <<act[u]>>],
                   active |-> [act EXCEPT ![u] =
                                 _save_session_to_db(@, FALSE, FALSE, db).session],
                   raised |-> "none"]

\* The sleep of the sweep ends: a tick begins, expired_sessions is computed.
SweepTick ==
  LET r == SweepAdvance([SweepIdle EXCEPT !.pc = "loop", !.i = 1,
                           !.expired = SelectSeq(UserOrder, LAMBDA u :
                                          /\ u \in DOMAIN active_sessions
                                          /\ is_expired(active_sessions[u], now))],
                        active_sessions)
  IN  /\ tasks.sweep.pc = "sleep"
      /\ tasks' = [tasks EXCEPT !.sweep = r.frame]
      /\ active_sessions' = r.active
      /\ ret' = [Idle EXCEPT !.op = "_cleanup_expired_sessions.tick"]
      /\ UNCHANGED <<now, current_user_id, initialized, db, next_oid, first_session,
                     users, flushed, security, journal>>

\* The statement of the sweep completes (ok) or raises, which is swallowed;
\* then `del self.active_sessions[user_id]` runs, where KeyError for a user
\* no longer in the map ends the tick, and the loop goes on.
SweepFlushed ==
  LET f == tasks.sweep
      u == f.expired[f.i]
      rec == [Idle EXCEPT !.op = "_cleanup_expired_sessions.flushed", !.user = u]
      r == SweepAdvance([f EXCEPT !.pc = "loop", !.i = @ + 1, !.snapshot = <<>>],
                        [v \in (DOMAIN active_sessions) \ {u} |-> active_sessions[v]])
  IN  /\ f.pc = "flushing"
      /\ \E ok \in BOOLEAN :
           db' = _save_session_to_db(f.snapshot[1], FALSE, ok, db).db
      /\ IF u \in DOMAIN active_sessions
           THEN /\ active_sessions' = r.active
                /\ tasks' = [tasks EXCEPT !.sweep = r.frame]
                /\ ret' = [rec EXCEPT !.raised = r.raised]
           ELSE /\ UNCHANGED active_sessions
                /\ tasks' = [tasks EXCEPT !.sweep = SweepIdle]
                /\ ret' = [rec EXCEPT !.raised = "KeyError"]
      /\ flushed' = flushed \ {u}
      /\ UNCHANGED <<now, current_user_id, initialized, next_oid, first_session,
                     users, security, journal>>

\* The bulk DELETE of _cleanup_old_sessions_from_db completes or raises,
\* which is swallowed; the tick ends.
SweepDeleted ==
  /\ tasks.sweep.pc = "deleting"
  /\ \E ok \in BOOLEAN : db' = _cleanup_old_sessions_from_db(db, now, ok)
  /\ tasks' = [tasks EXCEPT !.sweep = SweepIdle]
  /\ ret' = [Idle EXCEPT !.op = "_cleanup_expired_sessions.deleted"]
  /\ UNCHANGED <<now, active_sessions, current_user_id, initialized, next_oid,
                 first_session, users, flushed, security, journal>>

\* The clock moves on between operations.
AdvanceTime(d) ==
  /\ now + d <= StartTime + MaxElapsed
  /\ now' = now + d
  /\ ret' = [Idle EXCEPT !.op = "AdvanceTime"]
  /\ UNCHANGED <<active_sessions, current_user_id, initialized, db, next_oid,
                 first_session, users, flushed, security, journal, tasks>>

----------------------------------------------------------------------------
(* Preference and conversation-context updates *)

\* Attributes of a pydantic model object that are no fields of UserPreferences.
ModelAttributes == {"copy", "dict", "json"}

\* hasattr(session.preferences, key)
hasattr_preferences(key) == key \in PreferenceFields \cup ModelAttributes

\* The for-loop of update_user_preferences from item i of the patch: setattr
\* for every key the object has as an attribute.  setattr assigns a field
\* without validating the value; for a name that is no field the pydantic
\* model raises ValueError, which ends the loop.
RECURSIVE merge_preferences(_, _, _)
merge_preferences(prefs, items, i) ==
  IF i > Len(items)
    THEN [preferences |-> prefs, raised |-> "none"]
    ELSE LET key == items[i][1]
             value == items[i][2]
         IN  IF ~hasattr_preferences(key)
               THEN merge_preferences(prefs, items, i + 1)
               ELSE IF key \in PreferenceFields
                      THEN merge_preferences([prefs EXCEPT ![key] = value], items, i + 1)
                      ELSE [preferences |-> prefs, raised |-> "ValueError"]

\* The dictionary of a patch's items whose keys are in `fields`.
as_dict(items, fields) ==
  [k \in {key \in fields : has_key(items, key)} |-> value_of(items, k)]

\* The body of UserContextManager.update_user_preferences on the state
\* (act, cur): the map, the pointer and "Users" afterwards, and the report.
UpdateUserPreferences(act, cur, preferences, saveOk, rec) ==
  LET cs == current_session(act, cur, now)
  IN  IF cs.returned = <<>>
        THEN [active |-> cs.active, current |-> cs.current, users |-> users, ret |-> rec]
        ELSE LET session == cs.returned[1]
                 m == IF DOMAIN session.preferences # {}
                        THEN merge_preferences(session.preferences, preferences, 1)
                        ELSE [preferences |-> UserPreferences(as_dict(preferences,
                                                                      PreferenceFields)),
                              raised |-> "none"]
                 merged == [session EXCEPT !.preferences = m.preferences]
             IN  IF m.raised # "none"
                   THEN [ active |-> [cs.active EXCEPT ![session.user_id] = merged],
                          current |-> cs.current, users |-> users,
                          ret |-> [rec EXCEPT !.raised = m.raised,
                                              !.session = session.oid] ]
                   ELSE [ active |-> [cs.active EXCEPT ![session.user_id] =
                                        mark_dirty(update_activity(merged, now))],
                          current |-> cs.current,
                          users |-> _save_user_preferences(users, merged, saveOk),
                          ret |-> [rec EXCEPT !.session = session.oid,
                                              !.profile_writes = 1,
                                              !.save = IF saveOk THEN "ok"
                                                                 ELSE "failed"] ]

\* An update operation ends in the state r describes.
Updated(r) ==
  /\ active_sessions' = r.active
  /\ current_user_id' = r.current
  /\ users' = r.users
  /\ ret' = r.ret
  /\ flushed' = flushed \ {current_user_id}
  /\ UNCHANGED <<now, initialized, db, next_oid, first_session, security>>

\* UserContextManager.update_user_preferences
update_user_preferences(preferences, saveOk) ==
  /\ Updated(UpdateUserPreferences(active_sessions, current_user_id, preferences, saveOk,
               [Idle EXCEPT !.op = "update_user_preferences", !.user = current_user_id,
                            !.patch = preferences]))
  /\ UNCHANGED <<journal, tasks>>

\* The body of UserContextManager.update_conversation_context, as above.
UpdateConversationContext(act, cur, context_updates, rec) ==
  LET cs == current_session(act, cur, now)
  IN  IF cs.returned = <<>>
        THEN [active |-> cs.active, current |-> cs.current, users |-> users, ret |-> rec]
        ELSE LET session == cs.returned[1]
                 context == [k \in ContextFields |->
                               IF has_key(context_updates, k)
                                 THEN value_of(context_updates, k)
                                 ELSE session.conversation_context[k]]
                 merged == [session EXCEPT !.conversation_context = context]
             IN  [ active |-> [cs.active EXCEPT ![session.user_id] =
                                 mark_dirty(update_activity(merged, now))],
                   current |-> cs.current, users |-> users,
                   ret |-> [rec EXCEPT !.session = session.oid] ]

\* UserContextManager.update_conversation_context
update_conversation_context(context_updates) ==
  /\ Updated(UpdateConversationContext(active_sessions, current_user_id, context_updates,
               [Idle EXCEPT !.op = "update_conversation_context",
                            !.user = current_user_id, !.patch = context_updates]))
  /\ UNCHANGED <<journal, tasks>>

\* SecurityValidator.validate_preferences_json on the items of a JSON object:
\* the message of the first check that fails, or "Valid preferences".
validate_preferences_json(prefs) ==
  IF has_key(prefs, "distance_unit")
       /\ value_of(prefs, "distance_unit") \notin {"miles", "kilometers"}
    THEN "distance_unit must be 'miles' or 'kilometers'"
  ELSE IF has_key(prefs, "max_results_per_query")
       /\ (\/ ~isinstance_int(value_of(prefs, "max_results_per_query"))
           \/ ~(/\ 1 <= int[value_of(prefs, "max_results_per_query")]
                /\ int[value_of(prefs, "max_results_per_query")] <= 100))
    THEN "max_results_per_query must be an integer between 1 and 100"
  ELSE IF has_key(prefs, "detailed_responses")
       /\ ~isinstance_bool(value_of(prefs, "detailed_responses"))
    THEN "detailed_responses must be a boolean"
  ELSE IF has_key(prefs, "include_social_data")
       /\ ~isinstance_bool(value_of(prefs, "include_social_data"))
    THEN "include_social_data must be a boolean"
  ELSE IF has_key(prefs, "timezone")
       /\ (\/ ~isinstance_str(value_of(prefs, "timezone"))
           \/ len(value_of(prefs, "timezone")) > 50)
    THEN "timezone must be a valid timezone string"
  ELSE "Valid preferences"

\* The list fields of the conversation context.
ListFields == {"mentioned_runs", "mentioned_shoes", "mentioned_goals"}

\* SecurityValidator.validate_context_json.  The patches of the model give a
\* list field no value but a list, so that its isinstance test passes.
validate_context_json(context) ==
  IF has_key(context, "conversation_mood")
       /\ value_of(context, "conversation_mood") \notin {"positive", "neutral", "frustrated"}
    THEN "conversation_mood must be 'positive', 'neutral', or 'frustrated'"
  ELSE IF has_key(context, "last_topic")
       /\ (\/ ~isinstance_str(value_of(context, "last_topic"))
           \/ len(value_of(context, "last_topic")) > 100)
    THEN "last_topic must be a string with max 100 characters"
  ELSE IF \E field \in ListFields :
            has_key(context, field) /\ Len(value_of(context, field)) > 20
    THEN "field can contain max 20 items"
  ELSE "Valid context"

\* tools.update_user_preferences: the session is looked up (and touched), the
\* patch validated, and the manager called; an exception of the manager is
\* turned into a message.
tools_update_user_preferences(preferences, saveOk) ==
  LET cs == current_session(active_sessions, current_user_id, now)
      rec == [Idle EXCEPT !.op = "tools.update_user_preferences",
                          !.user = current_user_id, !.patch = preferences]
      message == validate_preferences_json(preferences)
  IN  IF cs.returned = <<>>
        THEN Updated([active |-> cs.active, current |-> cs.current, users |-> users,
                      ret |-> [rec EXCEPT !.message = "No user context set"]])
        ELSE IF message # "Valid preferences"
               THEN Updated([active |-> cs.active, current |-> cs.current,
                             users |-> users,
                             ret |-> [rec EXCEPT !.message = message,
                                                 !.session = cs.returned[1].oid]])
               ELSE LET r == UpdateUserPreferences(cs.active, cs.current, preferences,
                                                   saveOk, rec)
                    IN  Updated([r EXCEPT !.ret =
                                   [@ EXCEPT !.raised = "none",
                                             !.message = IF r.ret.raised = "none"
                                                           THEN "updated"
                                                           ELSE "Failed to update preferences"]])

\* tools.update_conversation_context, built the same way.
tools_update_conversation_context(context_updates) ==
  LET cs == current_session(active_sessions, current_user_id, now)
      rec == [Idle EXCEPT !.op = "tools.update_conversation_context",
                          !.user = current_user_id, !.patch = context_updates]
      message == validate_context_json(context_updates)
  IN  IF cs.returned = <<>>
        THEN Updated([active |-> cs.active, current |-> cs.current, users |-> users,
                      ret |-> [rec EXCEPT !.message = "No user context set"]])
        ELSE IF message # "Valid context"
               THEN Updated([active |-> cs.active, current |-> cs.current,
                             users |-> users,
                             ret |-> [rec EXCEPT !.message = message,
                                                 !.session = cs.returned[1].oid]])
               ELSE LET r == UpdateConversationContext(cs.active, cs.current,
                                                       context_updates, rec)
                    IN  Updated([r EXCEPT !.ret = [@ EXCEPT !.message = "updated"]])

----------------------------------------------------------------------------
(* user_context/smart_tools.py and the trackers of tools.py *)

\* topic_keywords of _extract_entities, in the order of the dictionary.
topic_keywords ==
  << <<"training", {<<"t","r","a","i","n","i","n","g">>, <<"w","o","r","k","o","u","t">>, <<"e","x","e","r","c","i","s","e">>}>>,
     <<"race", {<<"r","a","c","e">>, <<"m","a","r","a","t","h","o","n">>, <<"h","a","l","f"," ","m","a","r","a","t","h","o","n">>, <<"5","k">>, <<"1","0","k">>}>>,
     <<"injury", {<<"i","n","j","u","r","y">>, <<"p","a","i","n">>, <<"h","u","r","t">>, <<"s","o","r","e">>}>>,
     <<"goals", {<<"g","o","a","l">>, <<"t","a","r","g","e","t">>, <<"a","i","m">>, <<"w","a","n","t"," ","t","o">>}>>,
     <<"progress", {<<"p","r","o","g","r","e","s","s">>, <<"i","m","p","r","o","v","e","m","e","n","t">>, <<"b","e","t","t","e","r">>, <<"f","a","s","t","e","r">>}>> >>

\* goal_patterns of _extract_entities, each with the entry f"mentioned {pattern}".
goal_patterns ==
  << <<"mentioned want to", <<"w","a","n","t"," ","t","o">>>>,
     <<"mentioned goal", <<"g","o","a","l">>>>,
     <<"mentioned hoping to", <<"h","o","p","i","n","g"," ","t","o">>>>,
     <<"mentioned plan to", <<"p","l","a","n"," ","t","o">>>>,
     <<"mentioned training for", <<"t","r","a","i","n","i","n","g"," ","f","o","r">>>> >>

\* The first elements of the pairs of a sequence.
Firsts(pairs) == [i \in 1..Len(pairs) |-> pairs[i][1]]

\* _extract_entities: no code fills 'runs'.
_extract_entities(message) ==
  LET message_lower == lower(message)
  IN  [ topics |-> Firsts(SelectSeq(topic_keywords,
                     LAMBDA t : \E keyword \in t[2] : Contains(message_lower, keyword))),
        runs |-> <<>>,
        goals |-> Firsts(SelectSeq(goal_patterns,
                    LAMBDA g : Contains(message_lower, g[2]))) ]

\* The messages users send.
Messages ==
  << <<"M","y"," ","g","o","a","l"," ","i","s"," ","a"," ","f","a","s","t","e","r"," ","m","a","r","a","t","h","o","n">>,
     <<"M","y"," ","k","n","e","e"," ","i","s"," ","s","o","r","e">>,
     <<"H","e","l","l","o">> >>

\* _extract_entities(user_message) for every message of the model.
EntitiesOf == [m \in 1..Len(Messages) |-> _extract_entities(Messages[m])] @@ <<>>

\* update_conversation_intelligence_tool: the mood and the last action are
\* assigned as they come, the entities found are appended to the lists.
update_conversation_intelligence_tool(m, intent, sentiment) ==
  LET cs == current_session(active_sessions, current_user_id, now)
      rec == [Idle EXCEPT !.op = "update_conversation_intelligence_tool",
                          !.user = current_user_id]
      entities == EntitiesOf[m]
  IN  /\ UNCHANGED <<journal, tasks>>
      /\ IF cs.returned = <<>>
           THEN Updated([active |-> cs.active, current |-> cs.current, users |-> users,
                         ret |-> [rec EXCEPT !.message = "No active user session"]])
           ELSE LET session == cs.returned[1]
                    old == session.conversation_context
                    context ==
                      [old EXCEPT !.last_topic = IF entities.topics # <<>>
                                                   THEN entities.topics[1] ELSE @,
                                  !.conversation_mood = sentiment,
                                  !.last_action = intent,
                                  !.mentioned_runs = @ \o entities.runs,
                                  !.mentioned_goals = @ \o entities.goals]
                IN  /\ Len(context.mentioned_goals) <= MaxMentions
                    /\ Updated([active |-> [cs.active EXCEPT ![session.user_id] =
                                    update_activity([session EXCEPT
                                      !.conversation_context = context], now)],
                                 current |-> cs.current, users |-> users,
                                 ret |-> [rec EXCEPT !.session = session.oid,
                                                     !.message = "updated"]])

\* track_conversation_topic / track_last_action: the field is assigned.
Track(op, field, value) ==
  LET cs == current_session(active_sessions, current_user_id, now)
      rec == [Idle EXCEPT !.op = op, !.user = current_user_id]
  IN  /\ UNCHANGED <<journal, tasks>>
      /\ IF cs.returned = <<>>
           THEN Updated([active |-> cs.active, current |-> cs.current, users |-> users,
                         ret |-> rec])
           ELSE LET session == cs.returned[1]
                IN  Updated([active |-> [cs.active EXCEPT ![session.user_id] =
                               update_activity([session EXCEPT
                                 !.conversation_context[field] = value], now)],
                             current |-> cs.current, users |-> users,
                             ret |-> [rec EXCEPT !.session = session.oid]])

track_conversation_topic(topic) == Track("track_conversation_topic", "last_topic", topic)
track_last_action(action) == Track("track_last_action", "last_action", action)

----------------------------------------------------------------------------
(* user_context/security.py *)

\* The text of a user id, as a sequence of characters.
Repeat(c, n) == [i \in 1..n |-> c]
UuidText(c) ==
  Repeat(c, 8) \o <<"-">> \o Repeat(c, 4) \o <<"-">> \o Repeat(c, 4) \o <<"-">>
    \o Repeat(c, 4) \o <<"-">> \o Repeat(c, 12)

\* The user ids callers send: the ids of the model's users as UUIDs, one of
\* them also in capitals ("U9") and followed by a newline ("u9nl"), and ids
\* that are no UUIDs.
IdText ==
  ("u1" :> UuidText("1")) @@ ("u2" :> UuidText("2")) @@ ("u9" :> UuidText("9"))
    @@ ("U9" :> UuidText("A")) @@ ("u9nl" :> UuidText("9") \o <<"\n">>)
    @@ ("admin" :> <<"a", "d", "m", "i", "n">>)
    @@ ("" :> <<>>)

\* The characters [0-9a-f] of valid_user_id_pattern.
HexDigits == {"0", "1", "2", "3", "4", "5", "6", "7", "8", "9",
              "a", "b", "c", "d", "e", "f"}

\* valid_user_id_pattern.match(text): 8-4-4-4-12 hexadecimal digits between
\* ^ and $, where $ also matches before a newline that ends the text.
pattern_match(text) ==
  LET shape(s) ==
        /\ Len(s) = 36
        /\ \A i \in 1..36 : IF i \in {9, 14, 19, 24} THEN s[i] = "-"
                                                     ELSE s[i] \in HexDigits
  IN  \/ shape(text)
      \/ Len(text) = 37 /\ text[37] = "\n" /\ shape(SubSeq(text, 1, 36))

\* valid_user_id_pattern.match(user_id.lower()) for every id of the model.
MatchOf == [user_id \in DOMAIN IdText |-> pattern_match(lower(IdText[user_id]))] @@ <<>>

\* SecurityValidator.validate_user_id
validate_user_id(user_id) ==
  /\ user_id # None /\ user_id # ""
  /\ MatchOf[user_id]

\* The key f"{operation}:{identifier}" of the two dictionaries.
key(operation, identifier) == operation \o ":" \o identifier

\* A faulty variant of the filter below, which keeps a timestamp that is
\* exactly one window old.
recent_or_at_edge(timestamps, t, window) ==
  SelectSeq(timestamps, LAMBDA timestamp : t - timestamp <= window)

\* [timestamp for timestamp in timestamps if now - timestamp < window]
recent(timestamps, t, window) ==
  SelectSeq(timestamps, LAMBDA timestamp : t - timestamp < window)

\* SecurityValidator.check_rate_limit at time t: the answer and the
\* dictionary afterwards.
check_rate_limit(limits, operation, identifier, max_requests, window_minutes, t) ==
  LET k == key(operation, identifier)
      cleaned == IF k \in DOMAIN limits THEN recent(limits[k], t, window_minutes * 60)
                                        ELSE <<>>
  IN  IF Len(cleaned) >= max_requests
        THEN [allowed |-> FALSE, rate_limits |-> (k :> cleaned) @@ limits]
        ELSE [allowed |-> TRUE, rate_limits |-> (k :> Append(cleaned, t)) @@ limits]

\* SecurityValidator.log_failed_attempt at time t: the dictionary afterwards.
log_failed_attempt(attempts, operation, identifier, t) ==
  LET k == key(operation, identifier)
      old == IF k \in DOMAIN attempts THEN attempts[k] ELSE <<>>
  IN  (k :> Append(recent(old, t, 3600), t)) @@ attempts

\* SecurityValidator.is_blocked at time t.
is_blocked(attempts, operation, identifier, max_attempts, t) ==
  LET k == key(operation, identifier)
  IN  k \in DOMAIN attempts /\ Len(recent(attempts[k], t, 3600)) >= max_attempts

\* SecurityValidator.validate_session_access
validate_session_access(requesting_user_id, target_user_id) ==
  requesting_user_id = target_user_id

\* SecurityValidator.check_session_permissions on the result cs of
\* get_current_session: the answer, the message and rate_limits afterwards.
check_session_permissions(cs, operation) ==
  IF cs.returned = <<>>
    THEN [ valid |-> operation = "set_current_user",
           message |-> IF operation = "set_current_user"
                         THEN "Initial user setup allowed"
                         ELSE "No active user session",
           rate_limits |-> rate_limits ]
    ELSE IF is_expired(cs.returned[1], now)
           THEN [valid |-> FALSE, message |-> "Session has expired",
                 rate_limits |-> rate_limits]
           ELSE LET r == check_rate_limit(rate_limits, operation, user_id_of(cs),
                                          DefaultMaxRequests, 1, time)
                IN  [ valid |-> r.allowed,
                      message |-> IF r.allowed THEN "Permission granted"
                                               ELSE "Rate limit exceeded",
                      rate_limits |-> r.rate_limits ]

\* validate_user_operation, with user_id = None when the wrapper passes none.
validate_user_operation(cs, operation, user_id) ==
  LET perm == check_session_permissions(cs, operation)
      answer(valid, message, attempts) ==
        [ valid |-> valid, message |-> message, rate_limits |-> perm.rate_limits,
          failed_attempts |-> attempts ]
  IN  IF ~perm.valid
        THEN answer(FALSE, perm.message, failed_attempts)
        ELSE IF user_id = None
               THEN answer(TRUE, "Operation validated", failed_attempts)
        ELSE IF ~validate_user_id(user_id)
               THEN answer(FALSE, "Invalid user ID format",
                           log_failed_attempt(failed_attempts, operation, user_id, time))
        ELSE IF is_blocked(failed_attempts, operation, user_id, DefaultMaxAttempts, time)
               THEN answer(FALSE, "User ID temporarily blocked due to failed attempts",
                           failed_attempts)
        ELSE IF user_id_of(cs) # None /\ ~validate_session_access(user_id_of(cs), user_id)
               THEN answer(FALSE, "Insufficient permissions", failed_attempts)
               ELSE answer(TRUE, "Operation validated", failed_attempts)

\* tools.set_current_user under @secure_user_operation("set_current_user"):
\* the wrapper passes the id on to the validation only if it has the UUID
\* format, and calls the tool if the validation allows it.  The tool catches
\* every exception of the manager and answers with a message, so the wrapper's
\* own except branch, the only caller of log_failed_attempt for a well-formed
\* id, is never entered.
tools_set_current_user(user_id) ==
  LET cs == current_session(active_sessions, current_user_id, now)
      checked == IF validate_user_id(user_id) THEN user_id ELSE None
      v == validate_user_operation(cs, "set_current_user", checked)
      rec == [Idle EXCEPT !.op = "tools.set_current_user", !.user = user_id,
                          !.cur = user_id_of(cs)]
  IN  /\ rate_limits' = v.rate_limits
      /\ failed_attempts' = v.failed_attempts
      /\ UNCHANGED second
      /\ IF ~v.valid
           THEN /\ active_sessions' = cs.active
                /\ current_user_id' = cs.current
                /\ ret' = [rec EXCEPT !.message = v.message]
                /\ flushed' = flushed \ {current_user_id}
                /\ UNCHANGED <<now, initialized, db, next_oid, first_session, users>>
           ELSE SetCurrentUserInputs([rec EXCEPT !.executed = TRUE], cs.active,
                                     cs.current, user_id)

\* One call of check_rate_limit.
check_rate_limit_call(operation, identifier, max_requests) ==
  LET r == check_rate_limit(rate_limits, operation, identifier, max_requests, 1, time)
  IN  /\ rate_limits' = r.rate_limits
      /\ ret' = [Idle EXCEPT !.op = "check_rate_limit", !.user = identifier,
                             !.param = operation, !.result = r.allowed,
                             !.budget = max_requests]
      /\ UNCHANGED <<now, active_sessions, current_user_id, initialized, db, next_oid,
                     first_session, users, flushed, second, failed_attempts>>

\* The clock moves on by d seconds between operations.
AdvanceSeconds(d) ==
  /\ time + d <= StartTime * 60 + MaxSeconds
  /\ second' = (second + d) % 60
  /\ now' = now + ((second + d) \div 60)
  /\ ret' = [Idle EXCEPT !.op = "AdvanceSeconds"]
  /\ UNCHANGED <<active_sessions, current_user_id, initialized, db, next_oid,
                 first_session, users, flushed, rate_limits, failed_attempts, journal, tasks>>

----------------------------------------------------------------------------
(* security/data_isolation.py *)

\* `if not current_user` of the decorators and the secure_* primitives.
no_user_context(current_user) == current_user = None

\* A faulty variant of the test below, which lets every target pass.
cross_user_never(current_user, user_id) == FALSE

\* `if current_user != user_id` of get_user_runs, get_user_shoes, get_user_profile.
cross_user(current_user, user_id) == current_user # user_id

\* The part every guarded call shares: get_current_user_id() touches or evicts
\* the current session; rec is what the call reports.
GuardedCall(cs, rec) ==
  /\ active_sessions' = cs.active
  /\ current_user_id' = cs.current
  /\ ret' = rec
  /\ flushed' = flushed \ {current_user_id}
  /\ UNCHANGED <<now, initialized, db, next_oid, first_session, users, security, journal, tasks>>

\* The database helper a guarded call ends in: one call is made; it returns
\* (dbOk) or raises DatabaseOperationError.
Executed(rec, dbOk) ==
  [rec EXCEPT !.accesses = 1, !.dbcalls = 1, !.executed = dbOk,
              !.raised = IF dbOk THEN "none" ELSE "DatabaseOperationError"]

\* A call refused with DataAccessViolationError after n audit violation records.
Refused(rec, n) ==
  [rec EXCEPT !.violations = n, !.raised = "DataAccessViolationError"]

\* secure_fetch and secure_fetchrow: the same guard before fetch_with_timeout
\* and fetchrow_with_timeout.
SecureRead(op, q, param, dbOk) ==
  LET cs == current_session(active_sessions, current_user_id, now)
      current_user == user_id_of(cs)
      rec == [Idle EXCEPT !.op = op, !.cur = current_user, !.query = q,
                          !.param = param, !.result = FilterOf[q]]
  IN  GuardedCall(cs,
        IF no_user_context(current_user) THEN Refused(rec, 0)
        ELSE IF ~FilterOf[q] THEN Refused(rec, 1)
        ELSE Executed(rec, dbOk))

\* SecureDataAccess.secure_fetch
secure_fetch(q, param, dbOk) == SecureRead("secure_fetch", q, param, dbOk)

\* SecureDataAccess.secure_fetchrow
secure_fetchrow(q, param, dbOk) == SecureRead("secure_fetchrow", q, param, dbOk)

\* SecureDataAccess.secure_execute
secure_execute(q, param, dbOk) ==
  LET cs == current_session(active_sessions, current_user_id, now)
      current_user == user_id_of(cs)
      rec == [Idle EXCEPT !.op = "secure_execute", !.cur = current_user,
                          !.query = q, !.param = param, !.result = FilterOf[q]]
  IN  GuardedCall(cs,
        IF no_user_context(current_user) THEN Refused(rec, 0)
        ELSE IF ModificationOf[q] /\ ~FilterOf[q] THEN Refused(rec, 1)
        ELSE Executed(rec, dbOk))

\* get_user_runs, get_user_shoes and get_user_profile: the same check before a
\* fixed query on the target's rows.
GetUserData(op, user_id, dbOk) ==
  LET cs == current_session(active_sessions, current_user_id, now)
      current_user == user_id_of(cs)
      rec == [Idle EXCEPT !.op = op, !.cur = current_user, !.user = user_id,
                          !.param = user_id]
  IN  GuardedCall(cs,
        IF cross_user(current_user, user_id) THEN Refused(rec, 1)
        ELSE Executed(rec, dbOk))

\* SecureDataAccess.get_user_runs
get_user_runs(user_id, dbOk) == GetUserData("get_user_runs", user_id, dbOk)

\* SecureDataAccess.get_user_shoes
get_user_shoes(user_id, dbOk) == GetUserData("get_user_shoes", user_id, dbOk)

\* SecureDataAccess.get_user_profile
get_user_profile(user_id, dbOk) == GetUserData("get_user_profile", user_id, dbOk)

\* A function wrapped by the require_user_context decorator is called.
require_user_context ==
  LET cs == current_session(active_sessions, current_user_id, now)
      current_user == user_id_of(cs)
      rec == [Idle EXCEPT !.op = "require_user_context", !.cur = current_user]
  IN  GuardedCall(cs,
        IF no_user_context(current_user) THEN Refused(rec, 1)
        ELSE [rec EXCEPT !.executed = TRUE])

\* A function wrapped by the enforce_user_isolation decorator is called; it
\* receives the current user id as _current_user_id.
enforce_user_isolation ==
  LET cs == current_session(active_sessions, current_user_id, now)
      current_user == user_id_of(cs)
      rec == [Idle EXCEPT !.op = "enforce_user_isolation", !.cur = current_user]
  IN  GuardedCall(cs,
        IF no_user_context(current_user) THEN Refused(rec, 0)
        ELSE [rec EXCEPT !.executed = TRUE, !.param = current_user])

\* SecureDataAccess._has_user_filter called on its own.
has_user_filter_call(q) ==
  /\ ret' = [Idle EXCEPT !.op = "_has_user_filter", !.query = q, !.result = FilterOf[q]]
  /\ UNCHANGED <<now, active_sessions, current_user_id, initialized, db, next_oid,
                 first_session, users, flushed, security, journal, tasks>>

----------------------------------------------------------------------------
(* Specifications *)

\* SecurityValidator.__init__, at a full minute of the clock.
InitSecurity ==
  /\ second = 0
  /\ rate_limits = <<>>
  /\ failed_attempts = <<>>
  /\ journal = <<>>
  /\ tasks = NoTasks

\* A new process: UserContextManager.__init__, over whatever rows earlier
\* processes left in "UserSessions".
Init ==
  /\ now = StartTime
  /\ active_sessions = <<>>
  /\ current_user_id = None
  /\ initialized = FALSE
  /\ \E ids \in InitialTables : db = [id \in ids |-> LeftoverRows[id]]
  /\ next_oid = 0
  /\ first_session = [u \in UserIds |-> [oid |-> NoObject, session_id |-> <<>>]]
  /\ ret = Idle
  /\ users = UserRows
  /\ flushed = {}
  /\ InitSecurity

Next ==
  \/ \E user_id \in CallerIds : set_current_user(user_id)
  \/ \E user_id \in CallerIds : switch_user_context(user_id)
  \/ get_current_session
  \/ clear_current_user
  \/ _periodic_save_sessions
  \/ _cleanup_expired_sessions
  \/ \E d \in TimeSteps : AdvanceTime(d)

Spec == Init /\ [][Next]_vars

\* The isolation layer over a session manager with an empty "UserSessions" table.
InitIso ==
  /\ now = StartTime
  /\ active_sessions = <<>>
  /\ current_user_id = None
  /\ initialized = FALSE
  /\ db = <<>>
  /\ next_oid = 0
  /\ first_session = [u \in UserIds |-> [oid |-> NoObject, session_id |-> <<>>]]
  /\ ret = Idle
  /\ users = UserRows
  /\ flushed = {}
  /\ InitSecurity

NextIso ==
  \/ \E user_id \in ExistingUsers : set_current_user(user_id)
  \/ clear_current_user
  \/ AdvanceTime(IdleTimeoutMinutes + 1)
  \/ \E q \in GuardedQueries, param \in ParamIds, dbOk \in BOOLEAN :
       secure_fetch(q, param, dbOk)
  \/ \E q \in GuardedQueries, param \in ParamIds, dbOk \in BOOLEAN :
       secure_fetchrow(q, param, dbOk)
  \/ \E q \in GuardedQueries, param \in ParamIds, dbOk \in BOOLEAN :
       secure_execute(q, param, dbOk)
  \/ \E user_id \in TargetIds, dbOk \in BOOLEAN : get_user_runs(user_id, dbOk)
  \/ \E user_id \in TargetIds, dbOk \in BOOLEAN : get_user_shoes(user_id, dbOk)
  \/ \E user_id \in TargetIds, dbOk \in BOOLEAN : get_user_profile(user_id, dbOk)
  \/ require_user_context
  \/ enforce_user_isolation

SpecIso == InitIso /\ [][NextIso]_vars

\* The patches tools.update_user_preferences and
\* tools.update_conversation_context, the only callers, pass on to the manager.
ValidatedPreferencePatches ==
  {prefs \in PreferencePatches : validate_preferences_json(prefs) = "Valid preferences"}
ValidatedContextPatches ==
  {context \in ContextPatches : validate_context_json(context) = "Valid context"}

\* The update operations, of the manager and of the tools, on the session of
\* u1 over an empty "UserSessions" table.
NextPrefs ==
  \/ set_current_user("u1")
  \/ \E preferences \in ValidatedPreferencePatches, saveOk \in BOOLEAN :
       update_user_preferences(preferences, saveOk)
  \/ \E context_updates \in ValidatedContextPatches :
       update_conversation_context(context_updates)
  \/ \E preferences \in PreferencePatches, saveOk \in BOOLEAN :
       tools_update_user_preferences(preferences, saveOk) /\ UNCHANGED <<journal, tasks>>
  \/ \E context_updates \in ContextPatches :
       tools_update_conversation_context(context_updates) /\ UNCHANGED <<journal, tasks>>
  \/ AdvanceTime(IdleTimeoutMinutes + 1)

SpecPrefs == InitIso /\ [][NextPrefs]_vars

\* The save loop over the session of u1 and its three kinds of mutation: a
\* preference update, a context update and an activity touch.
NextSave ==
  \/ set_current_user("u1")
  \/ \E saveOk \in BOOLEAN :
       update_user_preferences(<< <<"distance_unit", "kilometers">> >>, saveOk)
  \/ update_conversation_context(<< <<"last_topic", "pace">> >>)
  \/ get_current_session
  \/ _periodic_save_sessions
  \/ \E d \in TimeSteps : AdvanceTime(d)

SpecSave == InitIso /\ [][NextSave]_vars

\* The calls of check_rate_limit of the model: the pair that is followed with
\* the default budget, and a pair with another identifier and a pair with
\* another operation, each with a budget of one.
LimiterCalls ==
  { <<"set_current_user", "u1", DefaultMaxRequests>>,
    <<"set_current_user", "u2", 1>>,
    <<"update_user_preferences", "u1", 1>> }

\* What the observer has noted under <<kind, k>>.
noted(kind, k) == IF <<kind, k>> \in DOMAIN journal THEN journal[<<kind, k>>] ELSE <<>>

\* The observer of the rate limiter notes every accepted call under its pair.
AcceptedNoted ==
  UNCHANGED tasks /\ journal' = IF ret'.op = "check_rate_limit" /\ ret'.result
               THEN LET k == <<ret'.param, ret'.user>>
                    IN  (<<"accepted", k>> :> Append(noted("accepted", k), time'))
                          @@ journal
               ELSE journal

\* The rate limiter alone, under a clock that moves in steps of half a window.
NextLimiter ==
  \/ \E c \in LimiterCalls : check_rate_limit_call(c[1], c[2], c[3]) /\ AcceptedNoted
  \/ AdvanceSeconds(30)

SpecLimiter == InitIso /\ [][NextLimiter]_vars

\* The entry points of tools.py that change a session.
EntryOps == {"tools.set_current_user", "tools.update_user_preferences",
             "tools.update_conversation_context"}

\* The last n elements of a sequence.
Last(s, n) == IF Len(s) <= n THEN s ELSE SubSeq(s, Len(s) - n + 1, Len(s))

\* The observer of the call rate follows one entry point and user at a time,
\* the one of the latest call, and notes the time of every call that was not
\* answered "Rate limit exceeded"; it keeps the latest DefaultMaxRequests + 1.
CallsNoted ==
  UNCHANGED tasks /\ journal' =
    IF ret'.op \notin EntryOps
      THEN journal
      ELSE LET k == <<ret'.op, ret'.user>>
               calls == IF ret'.message = "Rate limit exceeded"
                          THEN noted("call", k)
                          ELSE Append(noted("call", k), time')
           IN  <<"call", k>> :> Last(calls, DefaultMaxRequests + 1)

\* The user ids sent to tools.set_current_user: a user, and no UUID.
GuardIds == {"u1", "admin"}

\* The entry points of tools.py over an empty "UserSessions" table.
NextGuard ==
  \/ \E user_id \in GuardIds : tools_set_current_user(user_id) /\ CallsNoted
  \/ tools_update_user_preferences(<< <<"distance_unit", "kilometers">> >>, TRUE)
       /\ CallsNoted
  \/ tools_update_conversation_context(<< <<"last_topic", "pace">> >>) /\ CallsNoted
  \/ clear_current_user
  \/ AdvanceSeconds(60)

SpecGuard == InitIso /\ [][NextGuard]_vars

\* The observer of the failures follows one user id at a time and notes the
\* time of every set_current_user call that ran and failed; it keeps the
\* latest DefaultMaxAttempts + 1.
FailuresNoted ==
  UNCHANGED tasks /\ journal' =
    IF ret'.op # "tools.set_current_user"
      THEN journal
      ELSE LET k == <<ret'.op, ret'.user>>
               failures == IF ret'.executed /\ ret'.raised # "none"
                             THEN Append(noted("failed", k), time')
                             ELSE noted("failed", k)
           IN  <<"failed", k>> :> Last(failures, DefaultMaxAttempts + 1)

\* The user ids of failing attempts: a UUID of no user, as it is, in capitals
\* and followed by a newline; and a user.
LockoutIds == {"u9", "U9", "u9nl", "u1"}

\* tools.set_current_user with ids of no user, over an hour.
NextLockout ==
  \/ \E user_id \in LockoutIds : tools_set_current_user(user_id) /\ FailuresNoted
  \/ clear_current_user
  \/ AdvanceTime(IdleTimeoutMinutes + 1)

SpecLockout == InitIso /\ [][NextLockout]_vars

\* The three operations of the manager that read or write storage on behalf
\* of a caller, over whatever rows earlier processes left.
NextDegraded ==
  \/ \E user_id \in ExistingUsers : set_current_user(user_id)
  \/ \E saveOk \in BOOLEAN :
       update_user_preferences(<< <<"distance_unit", "kilometers">> >>, saveOk)
  \/ update_conversation_context(<< <<"last_topic", "pace">> >>)
  \/ AdvanceTime(IdleTimeoutMinutes + 1)

SpecDegraded == Init /\ [][NextDegraded]_vars

----------------------------------------------------------------------------
(* database_utils.py *)

\* config.database.retry_attempts, at its default.
retry_attempts == 3

\* What one invocation of the operation does: it returns, or raises a
\* connection-class error (asyncpg.ConnectionDoesNotExistError,
\* ConnectionFailureError, InterfaceError), a data/SQL error
\* (asyncpg.PostgresError, DataError) or any other Exception.
Outcomes == {"success", "connection", "data", "unexpected"}

\* The invocations the operation is scripted for.
MaxCalls == retry_attempts + 2

\* The loop of with_retry from one attempt on; outcomes[k] is what the k-th
\* invocation of the operation does.
RECURSIVE attempts_from(_, _, _)
attempts_from(outcomes, max_retries, attempt) ==
  LET outcome == outcomes[attempt + 1]
      done(raised, returned) ==
        [calls |-> attempt + 1, raised |-> raised, returned |-> returned]
  IN  IF attempt > max_retries
        THEN [calls |-> attempt, raised |-> "DatabaseConnectionError", returned |-> "none"]
      ELSE IF outcome = "success" THEN done("none", "success")
      ELSE IF outcome = "connection"
        THEN IF attempt < max_retries
               THEN attempts_from(outcomes, max_retries, attempt + 1)
               ELSE done("DatabaseConnectionError", "none")
      ELSE IF outcome = "data" THEN done("DatabaseOperationError", "none")
      ELSE done("DatabaseError", "none")

\* `max_retries or config.database.retry_attempts`: None and 0 are both falsy.
\* The argument is <<>> for None and <<n>> for a number passed.
max_retries_or_default(max_retries) ==
  IF max_retries = <<>> \/ max_retries[1] = 0 THEN retry_attempts ELSE max_retries[1]

\* with_retry(operation, max_retries=...).
with_retry(outcomes, max_retries) ==
  attempts_from(outcomes, max_retries_or_default(max_retries), 0)

\* One call of with_retry on a scripted operation.
with_retry_call(outcomes, max_retries) ==
  LET r == with_retry(outcomes, max_retries)
  IN  /\ ret' = [Idle EXCEPT !.op = "with_retry", !.max_retries = max_retries,
                             !.outcomes = outcomes, !.calls = r.calls,
                             !.raised = r.raised, !.returned = r.returned]
      /\ UNCHANGED <<now, active_sessions, current_user_id, initialized, db, next_oid,
                     first_session, users, flushed, security, journal, tasks>>

\* The values of max_retries a caller passes.
MaxRetriesPassed == 2

\* The invocations whose outcome is scripted freely; later ones repeat the last.
FreeCalls == 3

Scripts ==
  { outcomes \in [1..MaxCalls -> Outcomes] :
      \A k \in FreeCalls..(MaxCalls - 1) : outcomes[k + 1] = outcomes[k] }

NextRetry ==
  \E outcomes \in Scripts,
     max_retries \in {<<>>} \cup {<<n>> : n \in 0..MaxRetriesPassed} :
    with_retry_call(outcomes, max_retries)

SpecRetry == InitIso /\ [][NextRetry]_vars

\* The save loop running beside the calls of one user.
NextSaver ==
  \/ set_current_user("u1")
  \/ update_conversation_context(<< <<"last_topic", "pace">> >>)
  \/ update_conversation_context(<< <<"last_topic", "shoes">> >>)
  \/ SaverTick
  \/ SaverWrite
  \/ \E d \in TimeSteps : AdvanceTime(d)

SpecSaver == InitIso /\ [][NextSaver]_vars

\* Two coroutines calling set_current_user beside the save loop, in a new
\* process over the rows earlier processes left.
NextCalls ==
  \/ \E c \in Callers, user_id \in {"u1", "u2"} : CallBegin(c, user_id)
  \/ \E c \in Callers : RecoverFetched(c)
  \/ \E c \in Callers : RecoverMarked(c)
  \/ \E c \in Callers : LookupDone(c)
  \/ \E c \in Callers : Loaded(c)
  \/ \E c \in Callers : Created(c)
  \/ _periodic_save_sessions

SpecCalls == Init /\ [][NextCalls]_vars

\* The expiry sweep running beside the calls of two users.
NextSweep ==
  \/ \E user_id \in ExistingUsers : set_current_user(user_id)
  \/ get_current_session
  \/ SweepTick
  \/ SweepFlushed
  \/ SweepDeleted
  \/ \E d \in TimeSteps : AdvanceTime(d)

SpecSweep == InitIso /\ [][NextSweep]_vars

\* Context patches with lists: two runs, twenty goals, twenty-one shoes.
ListPatches ==
  { << <<"mentioned_runs", <<"r1", "r2">> >> >>,
    << <<"mentioned_goals", [i \in 1..20 |-> "sub-4 marathon"]>> >>,
    << <<"mentioned_shoes", [i \in 1..21 |-> "s1"]>> >> }

\* The operations that change the conversation context of u1's session.
NextContext ==
  \/ set_current_user("u1")
  \/ \E context_updates \in ContextPatches \cup ListPatches :
       tools_update_conversation_context(context_updates) /\ UNCHANGED <<journal, tasks>>
  \/ \E m \in 1..Len(Messages), sentiment \in {"positive", "negative"} :
       update_conversation_intelligence_tool(m, "question", sentiment)
  \/ track_conversation_topic("pace")
  \/ track_last_action("list_runs")
  \/ AdvanceTime(IdleTimeoutMinutes + 1)

SpecContext == InitIso /\ [][NextContext]_vars

\* _has_user_filter on every query of the model.
NextFilter ==
  \/ \E q \in Queries : has_user_filter_call(q)
  \/ \E d \in TimeSteps : AdvanceTime(d)

SpecFilter == InitIso /\ [][NextFilter]_vars

----------------------------------------------------------------------------
(* The isolation layer: C1 - C5 *)

GetterOps == {"get_user_runs", "get_user_shoes", "get_user_profile"}
SecureOps == {"secure_fetch", "secure_fetchrow", "secure_execute"}
GuardedOps == GetterOps \cup SecureOps \cup {"require_user_context", "enforce_user_isolation"}
Denied == ret.raised = "DataAccessViolationError"

\* C1: while A is the current user, get_user_runs, get_user_shoes and
\* get_user_profile called with a target B other than A raise
\* DataAccessViolationError, make no database call and emit exactly one audit
\* security-violation record.
C1_CrossUserGetterDenied ==
  (ret.op \in GetterOps /\ ret.cur # None /\ ret.user # ret.cur)
    => (Denied /\ ret.dbcalls = 0 /\ ret.violations = 1)

\* C1 happens: as u1, get_user_shoes for u2 was refused.
C1_Witness ==
  ret.op = "get_user_shoes" /\ ret.cur = "u1" /\ ret.user = "u2" /\ Denied

\* C2: while A is the current user, a secure_fetch, secure_fetchrow or
\* secure_execute call whose statement is scoped by a user-id predicate and
\* whose user-scoping parameter is another user B is refused with
\* DataAccessViolationError and never reaches the database.
C2_CrossUserParamDenied ==
  (/\ ret.op \in SecureOps
   /\ ret.cur # None
   /\ PredicateKind[ret.query[2]] = "user"
   /\ ret.param # ret.cur)
    => (Denied /\ ret.dbcalls = 0)

\* C3: with no active session every guarded operation raises
\* DataAccessViolationError, whatever its arguments, and neither the wrapped
\* function nor a database operation is executed.
C3_NoSessionDenied ==
  (ret.op \in GuardedOps /\ ret.cur = None)
    => (Denied /\ ret.dbcalls = 0 /\ ~ret.executed)

\* C4: with an active session, a statement in which the guard recognizes no
\* user-scoping predicate is never executed: secure_fetch and secure_fetchrow
\* for any such statement, and secure_execute for any such UPDATE or DELETE,
\* raise DataAccessViolationError, emit one audit violation record and make no
\* database call.
C4_UnscopedStatementDenied ==
  (/\ ret.op \in SecureOps
   /\ ret.cur # None
   /\ ~FilterOf[ret.query]
   /\ ret.op = "secure_execute" => StatementKind[ret.query[1]] \in {"update", "delete"})
    => (Denied /\ ret.violations = 1 /\ ret.dbcalls = 0)

\* C4 happens: as u1, a DELETE without a filter clause was refused by
\* secure_execute.
C4_Witness ==
  /\ ret.op = "secure_execute" /\ ret.cur = "u1" /\ Denied
  /\ StatementKind[ret.query[1]] = "delete" /\ PredicateKind[ret.query[2]] = "none"

\* C5: _has_user_filter accepts every statement with a user-id predicate
\* (quoted or unquoted column, any letter case) or a single-row lookup
\* `id = <param>` (with or without spaces around '='), accepts schema
\* introspection without a predicate, and rejects every other statement once
\* its predicate is stripped.
C5_FilterRecognizesPredicates ==
  ret.op = "_has_user_filter" =>
    LET statement == StatementKind[ret.query[1]]
        predicate == PredicateKind[ret.query[2]]
    IN  /\ predicate \in {"user", "id"} => ret.result
        /\ statement = "system" => ret.result
        /\ (predicate = "none" /\ statement # "system") => ~ret.result

\* C20: every DataAccessViolationError the isolation layer raises (no active
\* session, cross-user target, statement without user filter) comes after
\* exactly one audit security-violation record; no denial raises unaudited.
C20_EveryDenialAudited ==
  (ret.op \in GuardedOps /\ Denied) => ret.violations = 1

----------------------------------------------------------------------------
(* The session manager: C6 - C10 *)

SetCurrentUserReturned == ret.op = "set_current_user" /\ ret.raised = "none"

\* C6 as stated: every successful set_current_user call for a user returns the
\* session the map holds, and it is the object, with the session_id, that the
\* first call for that user returned.
C6_SameSessionAcrossAllCalls ==
  SetCurrentUserReturned =>
    /\ ret.user \in DOMAIN active_sessions
    /\ active_sessions[ret.user].oid = ret.session
    /\ first_session[ret.user] =
         [oid |-> ret.session, session_id |-> active_sessions[ret.user].session_id]

\* C6, amended: a user's entry of the map is never replaced by another session
\* (same object, same session_id and user_id for as long as the entry stays),
\* and a successful set_current_user call returns the session the map holds
\* for its user and makes that user current.
C6_SameSessionWhileHeld ==
  [][/\ \A u \in UserIds :
          (u \in DOMAIN active_sessions /\ u \in DOMAIN active_sessions')
            => /\ active_sessions'[u].oid = active_sessions[u].oid
               /\ active_sessions'[u].session_id = active_sessions[u].session_id
               /\ active_sessions'[u].user_id = u
     /\ SetCurrentUserReturned' =>
          /\ ret'.user \in DOMAIN active_sessions'
          /\ active_sessions'[ret'.user].oid = ret'.session
          /\ current_user_id' = ret'.user]_vars

\* C6 happens: a repeated call found the session in the map and returned the
\* object the first call returned.
C6_Witness ==
  /\ SetCurrentUserReturned /\ ret.source = "memory"
  /\ first_session[ret.user].oid = ret.session
  /\ now > StartTime

\* C7: get_current_session never returns a session idle for more than the
\* idle timeout at the moment of the call; for such a session it returns None,
\* removes the entry from the map and clears the current-user pointer, whether
\* or not the sweep has run.
C7_ExpiredNeverReturned ==
  [][ret'.op = "get_current_session" =>
       LET u == current_user_id
           held == u \in DOMAIN active_sessions
       IN  /\ (held /\ now > active_sessions[u].last_activity + IdleTimeoutMinutes)
                => /\ ret'.session = NoObject
                   /\ u \notin DOMAIN active_sessions'
                   /\ current_user_id' = None
           /\ ret'.session # NoObject
                => /\ held
                   /\ active_sessions[u].oid = ret'.session
                   /\ now <= active_sessions[u].last_activity + IdleTimeoutMinutes]_vars

\* C7 happens: get_current_session found the current user's session expired,
\* returned None, and the entry and the pointer are gone.
C7_Witness ==
  /\ ret.op = "get_current_session" /\ ret.user = "u1" /\ ret.session = NoObject
  /\ current_user_id = None /\ "u1" \notin DOMAIN active_sessions

\* C8: set_current_user never returns a session, held in memory or recovered
\* from a durable row, whose last_activity before the call was older than the
\* idle timeout.
C8_SetNeverReturnsExpired ==
  (SetCurrentUserReturned /\ ret.source \in {"memory", "db"})
    => now <= ret.prev_la + IdleTimeoutMinutes

\* C9 as stated: a set_current_user call for an unknown user id leaves the map
\* and the pointer as they were, in every state.
C9_UnknownUserChangesNothing ==
  [][(ret'.op = "set_current_user" /\ ret'.raised = "ValueError")
       => (active_sessions' = active_sessions /\ current_user_id' = current_user_id)]_vars

\* C9, amended: a set_current_user call for an unknown user id raises the
\* not-found error, constructs no session for it and leaves the pointer as it
\* was; it leaves the map as it was once startup recovery has run, and on the
\* first call of the process the only new entries are the durable rows that
\* recovery restored.
C9_UnknownUserOnlyRecovers ==
  [][(ret'.op = "set_current_user" /\ ret'.user \notin ExistingUsers)
       => /\ ret'.raised \in {"ValueError", "DatabaseOperationError"}
          /\ ret'.session = NoObject
          /\ current_user_id' = current_user_id
          /\ initialized => active_sessions' = active_sessions
          /\ \A u \in DOMAIN active_sessions' :
               \/ u \in DOMAIN active_sessions /\ active_sessions'[u] = active_sessions[u]
               \/ /\ ~initialized
                  /\ u \notin DOMAIN active_sessions
                  /\ active_sessions'[u].db_id \in ActiveUnexpired(db, now)
                  /\ db[active_sessions'[u].db_id].userId = u
          /\ DOMAIN active_sessions \subseteq DOMAIN active_sessions']_vars

\* C9 happens: with u1 current and holding a session, a call for the unknown
\* u9 raised the not-found error.
C9_Witness ==
  /\ ret.op = "set_current_user" /\ ret.user = "u9" /\ ret.raised = "ValueError"
  /\ current_user_id = "u1" /\ "u1" \in DOMAIN active_sessions

\* How often id occurs in the sequence s.
Occurrences(s, id) == Cardinality({i \in 1..Len(s) : s[i] = id})

----------------------------------------------------------------------------
(* Persistence and the save loop: C11 - C13 *)

C12_IdleSessionNotWritten ==
  [][ret'.op = "_periodic_save_sessions" =>
       \A u \in flushed :
         /\ u \notin ret'.written
         /\ {id \in DOMAIN db' : db'[id].userId = u}
              = {id \in DOMAIN db : db[id].userId = u}
         /\ \A id \in DOMAIN db : db[id].userId = u => db'[id] = db[id]]_vars

\* C12 happens: the session of u1 was written, not touched since, and an
\* iteration of the save loop has just passed without a write.
C12_Witness ==
  /\ ret.op = "_periodic_save_sessions" /\ ret.written = {}
  /\ "u1" \in flushed /\ "u1" \in DOMAIN active_sessions
  /\ active_sessions["u1"].db_id \in DOMAIN db

\* C13: a session whose write failed in an iteration of the save loop is
\* still dirty after the iteration, so that the next iteration writes it again.
C13_FailedWriteStaysDirty ==
  [][ret'.op = "_periodic_save_sessions" =>
       \A u \in ret'.write_failed : active_sessions'[u].needs_db_save]_vars

----------------------------------------------------------------------------
(* Preference updates: C14, C15 *)

\* C14: update_user_preferences(p) on a session is a merge without error:
\* it raises nothing, every field p names has p's value afterwards, every
\* other field keeps its value, keys that are no preference fields change
\* nothing, and applying p once more changes no field.
C14_IdempotentMerge ==
  [][(ret'.op = "update_user_preferences" /\ ret'.session # NoObject) =>
       LET p == ret'.patch
           before == active_sessions[ret'.user].preferences
           after == active_sessions'[ret'.user].preferences
       IN  /\ ret'.raised = "none"
           /\ \A k \in PreferenceFields :
                after[k] = IF has_key(p, k) THEN value_of(p, k) ELSE before[k]
           /\ merge_preferences(after, p, 1).preferences = after]_vars

\* A value the update-preferences request must refuse for a field it
\* recognizes: a distance unit other than miles and kilometers, a result
\* limit that is no integer from 1 to 100, a flag that is no boolean, a
\* timezone of more than 50 characters.
InvalidValue(field, value) ==
  \/ field = "distance_unit" /\ value \notin {"miles", "kilometers"}
  \/ field = "max_results_per_query"
       /\ (value \notin JsonIntegers \/ int[value] < 1 \/ int[value] > 100)
  \/ field \in {"notification_enabled", "detailed_responses", "include_social_data"}
       /\ value \notin JsonBooleans
  \/ field = "timezone" /\ (value \notin JsonStrings \/ Len(value) > 50)

\* C15: an update-preferences request that gives a recognized field an
\* invalid value is refused with a message, changes no preference field of
\* the session and issues no write to "Users".
C15_InvalidPatchRejected ==
  [][(/\ ret'.op = "tools.update_user_preferences" /\ ret'.session # NoObject
      /\ \E i \in 1..Len(ret'.patch) : InvalidValue(ret'.patch[i][1], ret'.patch[i][2])) =>
       /\ ret'.message \notin {"updated", "none"}
       /\ active_sessions'[ret'.user].preferences = active_sessions[ret'.user].preferences
       /\ ret'.profile_writes = 0
       /\ users' = users]_vars

----------------------------------------------------------------------------
(* The guards of the entry points: C16 - C19 *)

\* C16: check_rate_limit is a sliding window per (operation, identifier)
\* pair.  A call at time t is accepted exactly if fewer than max_requests
\* calls of its pair were accepted less than 60 seconds before t, whatever
\* was called for other pairs in between; so no 60 seconds hold more than
\* max_requests accepted calls of a pair, and a call is accepted again once
\* the accepted ones have left the window.  Only accepted calls are recorded,
\* and the record of every other pair is left as it is.
C16_SlidingWindow ==
  [][ret'.op = "check_rate_limit" =>
       LET pair == <<ret'.param, ret'.user>>
           k == key(ret'.param, ret'.user)
           before == noted("accepted", pair)
           after == IF ret'.result THEN Append(before, time) ELSE before
           InWindow(h) == {i \in 1..Len(h) : time - h[i] < 60}
       IN  /\ ret'.result <=> Cardinality(InWindow(before)) < ret'.budget
           /\ \A i \in 1..Len(after) :
                Cardinality({j \in 1..Len(after) :
                               after[i] <= after[j] /\ after[j] < after[i] + 60})
                  <= ret'.budget
           /\ Len(rate_limits'[k]) = Cardinality(InWindow(after))
           /\ \A i \in 1..Len(rate_limits'[k]) :
                rate_limits'[k][i] = after[Len(after) - Len(rate_limits'[k]) + i]
           /\ \A other \in DOMAIN rate_limits \ {k} :
                rate_limits'[other] = rate_limits[other]]_vars

\* C16 happens: the pair used up its budget of ten at the start, calls for
\* the two other pairs were made, and a minute later a call of the pair has
\* just been accepted again.
C16_Witness ==
  LET h == noted("accepted", <<"set_current_user", "u1">>)
  IN  /\ ret.op = "check_rate_limit" /\ ret.result
      /\ ret.user = "u1" /\ ret.param = "set_current_user"
      /\ Len(h) = DefaultMaxRequests + 1
      /\ h[DefaultMaxRequests] = StartTime * 60
      /\ h[DefaultMaxRequests + 1] = StartTime * 60 + 60
      /\ Cardinality(DOMAIN rate_limits) = 3

\* C17: every entry point that changes a session is rate limited: when ten
\* calls of an entry point for a user were let through in the last 60
\* seconds, a further call is answered "Rate limit exceeded" and changes no
\* pointer, no preference, no conversation context and no stored row.
C17_EntryPointsRateLimited ==
  [][ret'.op \in EntryOps =>
       LET h == noted("call", <<ret'.op, ret'.user>>)
       IN  Cardinality({i \in 1..Len(h) : time - h[i] < 60}) >= DefaultMaxRequests =>
             /\ ret'.message = "Rate limit exceeded"
             /\ current_user_id' = current_user_id
             /\ DOMAIN active_sessions' = DOMAIN active_sessions
             /\ \A u \in DOMAIN active_sessions :
                  /\ active_sessions'[u].preferences = active_sessions[u].preferences
                  /\ active_sessions'[u].conversation_context
                       = active_sessions[u].conversation_context
             /\ users' = users /\ db' = db]_vars

\* The UUID shape: 8-4-4-4-12 hexadecimal digits, in either case.
UuidShaped(text) ==
  /\ Len(text) = 36
  /\ \A i \in 1..36 :
       IF i \in {9, 14, 19, 24}
         THEN text[i] = "-"
         ELSE text[i] \in {"0", "1", "2", "3", "4", "5", "6", "7", "8", "9",
                           "a", "b", "c", "d", "e", "f", "A", "B", "C", "D", "E", "F"}

\* C18: tools.set_current_user with a user_id that has not the UUID shape is
\* refused before the manager is called: no read of "UserSessions" or "Users"
\* is issued, no session is created and the pointer stays as it is.
C18_MalformedIdRejected ==
  [][(ret'.op = "tools.set_current_user" /\ ~UuidShaped(IdText[ret'.user])) =>
       /\ ~ret'.executed
       /\ ret'.message \notin {"none", "Operation validated"}
       /\ ret'.recovered = "no" /\ ret'.load = "none"
       /\ initialized' = initialized
       /\ DOMAIN active_sessions' = DOMAIN active_sessions
       /\ current_user_id' = current_user_id]_vars

\* C19: when five set_current_user calls for a user id ran and failed within
\* the last hour, a further call for that id is refused as blocked and the
\* manager is not called.
C19_LockedOutAfterFailures ==
  [][ret'.op = "tools.set_current_user" =>
       LET h == noted("failed", <<ret'.op, ret'.user>>)
       IN  Cardinality({i \in 1..Len(h) : time - h[i] < 3600}) >= DefaultMaxAttempts =>
             /\ ret'.message = "User ID temporarily blocked due to failed attempts"
             /\ ~ret'.executed]_vars

----------------------------------------------------------------------------
(* Storage failures and the expiry sweep: C21 - C25 *)

\* C21: a failure of the session store inside set_current_user (the recovery
\* SELECT, the UPDATE of a row, the load of the user's row) or of the save
\* inside update_user_preferences does not reach the caller.  For an existing
\* user whose "Users" row was read, set_current_user raises nothing and
\* returns a session that is in the map and current; a failed recovery
\* recovers nothing and a failed load gives a new session.  A failed save of
\* the preferences leaves them updated in memory and "Users" as it is, and
\* update_conversation_context raises nothing.
C21_StorageFailureDegrades ==
  [][/\ (ret'.op = "set_current_user" /\ ret'.user \in ExistingUsers
           /\ ret'.lookup = "ok") =>
          /\ ret'.raised = "none"
          /\ ret'.session # NoObject
          /\ ret'.user \in DOMAIN active_sessions'
          /\ active_sessions'[ret'.user].oid = ret'.session
          /\ current_user_id' = ret'.user
          /\ ret'.recovered = "failed" =>
               DOMAIN active_sessions' = DOMAIN active_sessions \cup {ret'.user}
          /\ ret'.load = "failed" => ret'.source = "fresh"
     /\ (ret'.op = "update_user_preferences" /\ ret'.session # NoObject) =>
          /\ ret'.raised = "none"
          /\ active_sessions'[ret'.user].preferences.distance_unit = "kilometers"
          /\ ret'.save = "failed" => users' = users
     /\ ret'.op = "update_conversation_context" => ret'.raised = "none"]_vars

\* C21 happens: the recovery of the first set_current_user("u1") failed and
\* so did the load of u1's row, the call returned a new session; the update
\* of its preferences could not be saved and changed the session only.
C21_Witness ==
  /\ ret.op = "update_user_preferences" /\ ret.save = "failed" /\ ret.user = "u1"
  /\ active_sessions["u1"].preferences.distance_unit = "kilometers"
  /\ users["u1"].defaultDistanceUnit = "miles"
  /\ active_sessions["u1"].db_id = NoDbId
  /\ \E id \in DOMAIN db : db[id].userId = "u1" /\ db[id].active

\* C22: in every session the lists mentioned_runs, mentioned_shoes and
\* mentioned_goals hold at most 20 entries each and conversation_mood is
\* one of positive, neutral and frustrated.
C22_ContextBounded ==
  \A u \in DOMAIN active_sessions :
    LET context == active_sessions[u].conversation_context
    IN  /\ Len(context.mentioned_runs) <= 20
        /\ Len(context.mentioned_shoes) <= 20
        /\ Len(context.mentioned_goals) <= 20
        /\ context.conversation_mood \in {"positive", "neutral", "frustrated"}

\* C23: with max_retries >= 0 passed, with_retry invokes the operation at
\* most max_retries + 1 times; it retries only after a connection-class error
\* and raises DatabaseConnectionError after max_retries + 1 failed attempts;
\* after a data/SQL error or an unexpected error it has invoked the operation
\* once more and raises DatabaseOperationError or DatabaseError; on success it
\* returns the result and stops.
C23_RetryBudget ==
  [][ (ret'.op = "with_retry" /\ ret'.max_retries # <<>>) =>
        LET n == ret'.max_retries[1]
            calls == ret'.calls
            last == ret'.outcomes[calls]
        IN  /\ calls \in 1..(n + 1)
            /\ \A k \in 1..(calls - 1) : ret'.outcomes[k] = "connection"
            /\ last = "success" => ret'.raised = "none" /\ ret'.returned = "success"
            /\ last = "connection" =>
                 calls = n + 1 /\ ret'.raised = "DatabaseConnectionError"
            /\ last = "data" => ret'.raised = "DatabaseOperationError"
            /\ last = "unexpected" => ret'.raised = "DatabaseError" ]_vars

\* C24: after a tick of the expiry sweep no session past the idle timeout
\* remains in the map, and the durable record of every session the tick
\* evicted is no longer marked active.
C24_SweepDeactivates ==
  [][ ret'.op = "_cleanup_expired_sessions" =>
        /\ \A u \in DOMAIN active_sessions' : ~is_expired(active_sessions'[u], now')
        /\ \A u \in (DOMAIN active_sessions) \ (DOMAIN active_sessions') :
             LET s == active_sessions[u]
                 id == IF s.db_id # NoDbId THEN s.db_id ELSE uuid4(s)
             IN  id \in DOMAIN db' => ~db'[id].active ]_vars

\* C25: an audit access record is emitted only for a guarded operation whose
\* database operation executed successfully: a call of secure_fetch,
\* secure_fetchrow, secure_execute, get_user_runs, get_user_shoes or
\* get_user_profile whose database operation failed or timed out leaves no
\* access record.
C25_AccessAuditedOnSuccess ==
  (ret.op \in GetterOps \cup SecureOps /\ ret.accesses > 0) => ret.executed

----------------------------------------------------------------------------
(* Coroutines interleaving at their awaits: C26 - C29 *)

\* C26: no mutation is lost by the saver: when the write of the save loop
\* completes for a session that was mutated while the write was in flight, the
\* session is still dirty afterwards.
C26_NoLostMutation ==
  [][ (/\ ret'.op = "_periodic_save_sessions.write"
       /\ ret'.user \in DOMAIN active_sessions
       /\ active_sessions[ret'.user].oid = tasks.saver.snapshot[1].oid
       /\ to_dict(active_sessions[ret'.user]) # to_dict(tasks.saver.snapshot[1]))
        => active_sessions'[ret'.user].needs_db_save ]_vars

\* The rows of "UserSessions" inserted for a user since the process started.
InsertedFor(user_id) ==
  {id \in DOMAIN db : id > Len(LeftoverRows) /\ db[id].userId = user_id}

\* C27: two concurrent set_current_user calls for the same existing user both
\* return the same session object, and at most one durable record is ever
\* inserted for the user.
C27_OneSessionPerUser ==
  \A c1, c2 \in Callers :
    (/\ tasks.calls[c1].pc = "done" /\ tasks.calls[c2].pc = "done"
     /\ tasks.calls[c1].user_id = tasks.calls[c2].user_id
     /\ tasks.calls[c1].returned # NoObject /\ tasks.calls[c2].returned # NoObject)
      => /\ tasks.calls[c1].returned = tasks.calls[c2].returned
         /\ Cardinality(InsertedFor(tasks.calls[c1].user_id)) <= 1

\* C28: the startup recovery takes effect at most once: no recovery run marks
\* inactive the record of a session kept in memory, and no record is marked
\* inactive more than once.
C28_RecoveryOnce ==
  /\ \A c \in Callers : \A i \in 1..Len(tasks.calls[c].marked) :
       /\ \A u \in DOMAIN active_sessions :
            active_sessions[u].db_id # tasks.calls[c].marked[i]
       /\ \A j \in 1..Len(tasks.calls[c].marked) :
            tasks.calls[c].marked[j] = tasks.calls[c].marked[i] => j = i
  /\ \A c1, c2 \in Callers : \A i \in 1..Len(tasks.calls[c1].marked) :
       \A j \in 1..Len(tasks.calls[c2].marked) :
         tasks.calls[c1].marked[i] = tasks.calls[c2].marked[j] => c1 = c2

SweepOps ==
  { "_cleanup_expired_sessions.tick", "_cleanup_expired_sessions.flushed",
    "_cleanup_expired_sessions.deleted" }

\* C29: the expiry sweep never evicts a session that is not expired at the
\* moment it is evicted, and a session touched or removed by a foreground call
\* while the sweep is suspended does not abort the tick: every session a step
\* of the sweep removes from the map is past the idle timeout then, and no
\* step of the sweep ends in an exception.
C29_SweepEvictsOnlyExpired ==
  [][ ret'.op \in SweepOps =>
        /\ ret'.raised = "none"
        /\ \A u \in (DOMAIN active_sessions) \ (DOMAIN active_sessions') :
             is_expired(active_sessions[u], now) ]_vars

----------------------------------------------------------------------------
(* A failed first save: C30 *)

\* C30: a failed first save does not prevent later persistence: once the save
\* loop has written a session without a failure, a durable record of the
\* session exists (its db_id is the id of a row).
C30_LaterSavePersists ==
  [][ ret'.op = "_periodic_save_sessions" =>
        \A u \in ret'.written \ ret'.write_failed :
          active_sessions'[u].db_id \in DOMAIN db' ]_vars

====
